---------------------------- MODULE Spec2Model ----------------------------
(***************************************************************************)
(* A model of dbus-bytestream: the Connection (serial counter, receive     *)
(* queue, send / read_msg / call_sync) and its SASL handshake.             *)
(*                                                                         *)
(* Spec      a connected Connection driven through its public operations.  *)
(* SpecConnected  the same, from the Connection connect() has just made.   *)
(* SpecAuth  Connection::connect_uds / connect_tcp: construction, the      *)
(*           handshake of authenticate() and the Hello call.               *)
(***************************************************************************)
EXTENDS Integers, Sequences, FiniteSets, TLC

VARIABLES
    serial,     \* Connection.serial: the next serial to stamp (u32)
    queue,      \* Connection.queue: messages read but not yet consumed
    phase,      \* where connect() stands; "connected" once it has returned Ok
    pc,         \* "idle", "cs_loop" (inside call_sync's loop) or "panicked"
    csSerial,   \* call_sync's local `serial`: the serial its send returned
    local,      \* call_sync's local `queue`
    wire,       \* history: the chunks written to the socket, in order
    assigned,   \* history: the serials next_serial handed out, in order
    nrecv,      \* history: number of messages read from the socket so far
    sockEof,    \* the stream has ended: every later read comes up short
    delivered,  \* history: ids of the messages read_msg returned to the caller
    lastRead,   \* history: source and message of the last read_msg
    authLog,    \* history: the handshake's writes and server lines, in order
    attempts,   \* history: the mechanisms authenticate tried, with results
    ret,        \* what the last finished operation returned
    sock,       \* the byte stream of the socket: what is left before its end
    rdStage,    \* history: the stage at which the last sock_read_msg ended
    dispatchers,\* the MessageDispatchers of a chain: their two handler maps
    hres,       \* the HandlerResult the chain has come to
    orig,       \* history: the Message first handed to handle_message
    sent,       \* history: the messages handed to sender.send, with results
    invoked,    \* history: the handler calls, with the decoded arguments
    chainPos,   \* how many handlers of the chain have had their turn
    cval,       \* the Value handed to dbus_encode, NoValue when there is none
    cbuf,       \* the buffer handed to demarshal
    csig,       \* the signature handed to demarshal
    cret,       \* what demarshal returned and left of its arguments
    coff,       \* the offset handed to demarshal: the bytes before the value
    mmsg,       \* the Message in the caller's hands, and how it came there
    mwire,      \* the bytes written to the socket and not yet read
    mres,       \* what the last operation on a Message returned
    ainp,       \* the string handed to the address parser
    aret        \* what the address parser returned

\* the byte-level reader of SpecRead, the dispatcher chain of SpecDispatch
rvars == <<sock, rdStage>>
dvars == <<dispatchers, hres, orig, sent, invoked, chainPos>>
\* the codec of SpecCodec
kvars == <<cval, cbuf, csig, cret, coff>>
\* the state of the specifications of the pure functions
mvars == <<mmsg, mwire, mres>>
avars == <<ainp, aret>>
pvars == <<kvars, mvars, avars>>

vars == <<serial, queue, phase, pc, csSerial, local, wire, assigned, nrecv,
          sockEof, delivered, lastRead, authLog, attempts, ret, rvars, dvars,
          pvars>>

\* no byte stream and no dispatcher chain: the state of both outside their
\* own specifications
NoStream ==
    /\ sock = [avail |-> 0, arr_len |-> 0, body_len |-> 0, fields |-> "good"]
    /\ rdStage = "none"

\* no Value
NoValue ==
    [kind |-> "None", n |-> 0, s |-> <<>>, sig |-> <<>>, objects |-> <<>>]

NoCodec ==
    /\ cval = NoValue
    /\ cbuf = <<>>
    /\ csig = <<>>
    /\ cret = [res |-> "none"]
    /\ coff = 0

\* no Message in hand and nothing on its wire
NoMessages ==
    /\ mmsg = [origin |-> "none"]
    /\ mwire = [bytes |-> <<>>, sent |-> <<>>, eof |-> FALSE]
    /\ mres = [op |-> "none"]

\* no address handed to the parser
NoAddress ==
    /\ ainp = [op |-> "none", s |-> <<>>]
    /\ aret = [res |-> "none"]

NoPure == NoCodec /\ NoMessages /\ NoAddress

NoDispatch ==
    /\ dispatchers = <<>>
    /\ hres = [kind |-> "none"]
    /\ orig = [kind |-> "none"]
    /\ sent = <<>>
    /\ invoked = <<>>
    /\ chainPos = 0

----------------------------------------------------------------------------
(* Bounds of the model *)

\* messages the socket delivers in one behaviour
MaxRecv == 3
\* serials handed out in one behaviour
MaxSends == 2

(* Program constants *)

\* serial: RefCell<u32>.  A u32 is held as <<high half, low half>>, two
\* 16-bit digits, so that the top of the range is a value of the model.
U16Mod == 65536
MESSAGE_TYPE_METHOD_CALL == 1
MESSAGE_TYPE_SIGNAL == 4
FLAGS_NO_REPLY_EXPECTED == 1

U32(n) == <<n \div U16Mod, n % U16Mod>>
U32Max == <<U16Mod - 1, U16Mod - 1>>

\* v + 1 in u32, wrapping
u32_wrapping_inc(v) ==
    IF v[2] + 1 < U16Mod THEN <<v[1], v[2] + 1>>
    ELSE <<(v[1] + 1) % U16Mod, 0>>

\* v - 1 in u32, wrapping
u32_wrapping_dec(v) ==
    IF v[2] > 0 THEN <<v[1], v[2] - 1>>
    ELSE <<(v[1] + U16Mod - 1) % U16Mod, U16Mod - 1>>

u32_lt(a, b) == a[1] < b[1] \/ (a[1] = b[1] /\ a[2] < b[2])

\* a reply serial that no send of the model stamps (the spec's test uses 99)
OtherSerial == U32(99)

----------------------------------------------------------------------------
(* Messages *)

\* A received message, as far as Connection looks at it: `hdr` tells whether
\* the first ReplySerial header is absent ("none"), holds a value that
\* DBusDecoder decodes as u32 ("u32") or one it does not ("nonu32", on which
\* call_sync's unwrap panics); `rs` is its value; `body` tells what get_body makes of the body.
\* `id` is the position of the message in the socket's stream (history).
NoMsg == [id |-> 0, hdr |-> "none", rs |-> U32(0), body |-> "empty"]

\* An outgoing message: message_type, flags, the Member header, the serial.
NoOut == [mtype |-> 0, flags |-> 0, member |-> "", serial |-> U32(0)]

Hello == [mtype |-> MESSAGE_TYPE_METHOD_CALL, flags |-> 0, member |-> "Hello",
          serial |-> U32(0)]

\* the messages the caller hands to send and call_sync
OutMsgs ==
    { [mtype |-> h[1], flags |-> h[2], member |-> "ListNames",
       serial |-> U32(0)] :
        h \in { <<MESSAGE_TYPE_METHOD_CALL, 0>>,
                <<MESSAGE_TYPE_METHOD_CALL, FLAGS_NO_REPLY_EXPECTED>>,
                <<MESSAGE_TYPE_SIGNAL, 0>> } }

Chunk(part, m) == [part |-> part, msg |-> m]

\* What a read of the socket can meet: a well-formed message, the end of the
\* stream, or bytes demarshal rejects.
\* The reply serials are the serial stamped last, the serial the next send
\* will stamp, and one that is neither.
SockEvents(s) ==
    { [ev |-> "msg", hdr |-> h[1], rs |-> h[2], body |-> h[3]] :
        h \in { <<"none", U32(0), "good">>,
                <<"nonu32", U32(0), "empty">>,
                <<"u32", OtherSerial, "good">>,
                <<"u32", s, "empty">>,
                <<"u32", u32_wrapping_dec(s), "empty">>,
                <<"u32", u32_wrapping_dec(s), "good">>,
                <<"u32", u32_wrapping_dec(s), "bad">> } }
    \cup { [ev |-> e, hdr |-> "none", rs |-> U32(0), body |-> "empty"] :
             e \in {"eof", "garbage"} }

\* a sequence of numbers that grows strictly
IsIncreasing(s) == \A i \in 1..Len(s) - 1 : s[i] < s[i + 1]

\* a sequence of u32 that grows strictly
IsIncreasingU32(s) == \A i \in 1..Len(s) - 1 : u32_lt(s[i], s[i + 1])

----------------------------------------------------------------------------
(* Connection: sending *)

next_serial(s) == [current |-> s, serial |-> u32_wrapping_inc(s)]

\* current_serial + 1 overflows u32: a panic in a build with overflow checks
next_serial_overflows(s) == s = U32Max

\* wr: which write_all fails, if any
WriteOutcomes == {"ok", "fail_header", "fail_body"}

\* sock_send with the two write_all calls in the other order
sock_send_body_first(w, mbuf, wr) ==
    CASE wr = "fail_header" -> [res |-> "IOError", wire |-> w]
      [] wr = "fail_body"   -> [res |-> "IOError",
                                wire |-> Append(w, Chunk("body", mbuf))]
      [] OTHER              -> [res |-> "Ok",
                                wire |-> w \o <<Chunk("body", mbuf),
                                                Chunk("header", mbuf)>>]

sock_send(w, mbuf, wr) ==
    CASE wr = "fail_header" -> [res |-> "IOError", wire |-> w]
      [] wr = "fail_body"   -> [res |-> "IOError",
                                wire |-> Append(w, Chunk("header", mbuf))]
      [] OTHER              -> [res |-> "Ok",
                                wire |-> w \o <<Chunk("header", mbuf),
                                                Chunk("body", mbuf)>>]

send(s, w, mbuf, wr) ==
    LET n       == next_serial(s)
        stamped == [mbuf EXCEPT !.serial = n.current]
        out     == sock_send(w, stamped, wr)
    IN  [res |-> out.res, this_serial |-> n.current, serial |-> n.serial,
         wire |-> out.wire]

----------------------------------------------------------------------------
(* Connection: receiving *)

pop_message(q) ==
    IF q = <<>> THEN [some |-> FALSE, msg |-> NoMsg, queue |-> q]
    ELSE [some |-> TRUE, msg |-> Head(q), queue |-> Tail(q)]

\* e: what the socket holds; n: messages read from the socket before
sock_read_msg(e, n, eof) ==
    CASE eof \/ e.ev = "eof" ->
            [res |-> "Disconnected", msg |-> NoMsg, nrecv |-> n, eof |-> TRUE]
      [] e.ev = "garbage" ->
            [res |-> "DemarshalError", msg |-> NoMsg, nrecv |-> n, eof |-> eof]
      [] OTHER ->
            [res |-> "Ok",
             msg |-> [id |-> n + 1, hdr |-> e.hdr, rs |-> e.rs, body |-> e.body],
             nrecv |-> n + 1, eof |-> eof]

\* read_msg that goes to the socket without looking at the queue
read_msg_socket_first(q, e, n, eof) ==
    LET r == sock_read_msg(e, n, eof) IN
    [res |-> r.res, msg |-> r.msg, queue |-> q, nrecv |-> r.nrecv,
     eof |-> r.eof, src |-> "sock"]

read_msg(q, e, n, eof) ==
    LET p == pop_message(q) IN
    IF p.some
    THEN [res |-> "Ok", msg |-> p.msg, queue |-> p.queue, nrecv |-> n,
          eof |-> eof, src |-> "queue"]
    ELSE LET r == sock_read_msg(e, n, eof) IN
         [res |-> r.res, msg |-> r.msg, queue |-> p.queue, nrecv |-> r.nrecv,
          eof |-> r.eof, src |-> "sock"]

\* Message::get_body as call_sync sees it
get_body(m) ==
    CASE m.body = "empty" -> [res |-> "Ok", body |-> "None"]
      [] m.body = "good"  -> [res |-> "Ok", body |-> "Some"]
      [] OTHER            -> [res |-> "DemarshalError", body |-> "None"]

RECURSIVE push_queue(_, _)
push_queue(master_queue, q) ==
    IF q = <<>> THEN master_queue
    ELSE push_queue(<<Head(q)>> \o master_queue, Tail(q))

\* call_sync taking any message with a ReplySerial header for the reply
is_reply_any(m, s) == TRUE

\* call_sync that takes no message for the reply
is_reply_never(m, s) == FALSE

\* the test of call_sync on a message that has a ReplySerial header
is_reply(m, s) == m.rs = s

Ret(op, kind, s, m, b, skipped) ==
    [op |-> op, kind |-> kind, serial |-> s, msg |-> m, body |-> b,
     skipped |-> skipped]

NoRet == Ret("none", "Ok", U32(0), NoMsg, "None", <<>>)

NoRead == [src |-> "none", msg |-> NoMsg]

\* say_hello dropping the result of call_sync
after_call_unchecked(ph, kind) ==
    IF ph = "hello" THEN "connected" ELSE ph

\* say_hello and connect_*: the Hello call's result is connect's result
after_call(ph, kind) ==
    IF ph = "hello" THEN (IF kind = "Ok" THEN "connected" ELSE "failed")
    ELSE ph

----------------------------------------------------------------------------
(* The public operations of a connected Connection *)

Panic(op) ==
    /\ pc' = "panicked"
    /\ ret' = Ret(op, "panic", U32(0), NoMsg, "None", <<>>)
    /\ UNCHANGED <<serial, queue, phase, csSerial, local, wire, assigned,
                   nrecv, sockEof, delivered, lastRead, authLog, attempts, rvars, dvars, pvars>>

Send ==
    /\ phase = "connected" /\ pc = "idle"
    /\ Len(assigned) < MaxSends
    /\ \E mbuf \in OutMsgs, wr \in WriteOutcomes, checks \in BOOLEAN :
         IF checks /\ next_serial_overflows(serial)
         THEN Panic("send")
         ELSE LET r == send(serial, wire, mbuf, wr) IN
              /\ serial' = r.serial
              /\ wire' = r.wire
              /\ assigned' = Append(assigned, r.this_serial)
              /\ ret' = Ret("send", r.res, r.this_serial, NoMsg, "None", <<>>)
              /\ UNCHANGED <<queue, phase, pc, csSerial, local, nrecv, sockEof,
                             delivered, lastRead, authLog, attempts, rvars, dvars, pvars>>

ReadMsg ==
    /\ phase = "connected" /\ pc = "idle"
    /\ \E e \in SockEvents(serial) :
         LET r == read_msg(queue, e, nrecv, sockEof) IN
         /\ r.nrecv <= MaxRecv
         /\ queue' = r.queue
         /\ nrecv' = r.nrecv
         /\ sockEof' = r.eof
         /\ lastRead' = [src |-> r.src, msg |-> r.msg]
         /\ delivered' = IF r.res = "Ok" THEN Append(delivered, r.msg.id)
                         ELSE delivered
         /\ ret' = Ret("read_msg", r.res, U32(0), r.msg, "None", <<>>)
         /\ UNCHANGED <<serial, phase, pc, csSerial, local, wire, assigned,
                        authLog, attempts, rvars, dvars, pvars>>

\* call_sync that sends before it looks at the message
CallSyncSendThenAssert(mbuf, wr, checks) ==
    IF checks /\ next_serial_overflows(serial)
    THEN Panic("call_sync")
    ELSE LET r == send(serial, wire, mbuf, wr) IN
         /\ serial' = r.serial
         /\ wire' = r.wire
         /\ assigned' = Append(assigned, r.this_serial)
         /\ CASE mbuf.mtype # MESSAGE_TYPE_METHOD_CALL \/ mbuf.flags % 2 # 0 ->
                   /\ pc' = "panicked"
                   /\ ret' = Ret("call_sync", "panic", U32(0), NoMsg, "None",
                                 <<>>)
                   /\ UNCHANGED <<phase, csSerial>>
              [] r.res = "Ok" ->
                   /\ pc' = "cs_loop"
                   /\ csSerial' = r.this_serial
                   /\ ret' = Ret("call_sync", "pending", r.this_serial, NoMsg,
                                 "None", <<>>)
                   /\ UNCHANGED phase
              [] OTHER ->
                   /\ pc' = "idle"
                   /\ ret' = Ret("call_sync", r.res, r.this_serial, NoMsg,
                                 "None", <<>>)
                   /\ phase' = after_call(phase, r.res)
                   /\ UNCHANGED csSerial
         /\ local' = <<>>
         /\ UNCHANGED <<queue, nrecv, sockEof, delivered, lastRead, authLog,
                        attempts, rvars, dvars, pvars>>

\* call_sync up to its loop: the two assertions and the send
CallSyncSend(mbuf, wr, checks) ==
    IF \/ mbuf.mtype # MESSAGE_TYPE_METHOD_CALL
       \/ mbuf.flags % 2 # 0
       \/ checks /\ next_serial_overflows(serial)
    THEN Panic("call_sync")
    ELSE LET r == send(serial, wire, mbuf, wr) IN
         /\ serial' = r.serial
         /\ wire' = r.wire
         /\ assigned' = Append(assigned, r.this_serial)
         /\ IF r.res = "Ok"
            THEN /\ pc' = "cs_loop"
                 /\ csSerial' = r.this_serial
                 /\ ret' = Ret("call_sync", "pending", r.this_serial, NoMsg,
                               "None", <<>>)
                 /\ UNCHANGED phase
            ELSE /\ pc' = "idle"
                 /\ ret' = Ret("call_sync", r.res, r.this_serial, NoMsg,
                               "None", <<>>)
                 /\ phase' = after_call(phase, r.res)
                 /\ UNCHANGED csSerial
         /\ local' = <<>>
         /\ UNCHANGED <<queue, nrecv, sockEof, delivered, lastRead, authLog,
                        attempts, rvars, dvars, pvars>>

CallSync ==
    /\ phase = "connected" /\ pc = "idle"
    /\ Len(assigned) < MaxSends
    /\ \E mbuf \in OutMsgs, wr \in WriteOutcomes, checks \in BOOLEAN :
         CallSyncSend(mbuf, wr, checks)

\* one turn of call_sync's loop
CallSyncLoop ==
    /\ pc = "cs_loop"
    /\ \E e \in SockEvents(serial) :
         LET r == read_msg(queue, e, nrecv, sockEof) IN
         /\ r.nrecv <= MaxRecv
         /\ nrecv' = r.nrecv
         /\ sockEof' = r.eof
         /\ lastRead' = [src |-> r.src, msg |-> r.msg]
         /\ UNCHANGED <<serial, csSerial, wire, assigned, delivered, authLog,
                        attempts, rvars, dvars, pvars>>
         /\ CASE r.res # "Ok" ->
                   /\ pc' = "idle"
                   /\ queue' = r.queue
                   /\ local' = <<>>
                   /\ ret' = Ret("call_sync", r.res, csSerial, NoMsg, "None",
                                 <<>>)
                   /\ phase' = after_call(phase, r.res)
              [] r.res = "Ok" /\ r.msg.hdr = "nonu32" ->
                   /\ pc' = "panicked"
                   /\ queue' = r.queue
                   /\ local' = <<>>
                   /\ ret' = Ret("call_sync", "panic", csSerial, NoMsg, "None",
                                 <<>>)
                   /\ UNCHANGED phase
              [] r.res = "Ok" /\ r.msg.hdr = "u32" /\ is_reply(r.msg, csSerial) ->
                   LET b == get_body(r.msg) IN
                   /\ pc' = "idle"
                   /\ queue' = push_queue(r.queue, local)
                   /\ local' = <<>>
                   /\ ret' = Ret("call_sync", b.res, csSerial, r.msg, b.body,
                                 local)
                   /\ phase' = after_call(phase, b.res)
              [] OTHER ->
                   /\ queue' = r.queue
                   /\ local' = Append(local, r.msg)
                   /\ UNCHANGED <<pc, ret, phase>>

----------------------------------------------------------------------------
(* Spec: a connected Connection.  connect() has returned it (the Hello call *)
(* took serial 1), or it has been in use for a long time and its counter    *)
(* stands just below the top of u32.                                        *)

Init ==
    /\ serial \in {U32(2), U32Max}
    /\ queue = <<>>
    /\ phase = "connected"
    /\ pc = "idle"
    /\ csSerial = U32(0)
    /\ local = <<>>
    /\ wire = <<>>
    /\ assigned = <<>>
    /\ nrecv = 0
    /\ sockEof = FALSE
    /\ delivered = <<>>
    /\ lastRead = NoRead
    /\ authLog = <<>>
    /\ attempts = <<>>
    /\ ret = NoRet
    /\ NoStream /\ NoDispatch /\ NoPure

Next == Send \/ ReadMsg \/ CallSync \/ CallSyncLoop

Spec == Init /\ [][Next]_vars

\* SpecConnected: the Connection as connect() has just returned it
InitConnected == Init /\ serial = U32(2)

SpecConnected == InitConnected /\ [][Next]_vars

----------------------------------------------------------------------------
(* The handshake: Connection::authenticate and what it calls *)

\* The server's answer to a command, as the client tells the lines apart:
\* "OK" starts with "OK "; "DATA" is DATA with a hex challenge of three
\* words; "BAD_DATA" is DATA with anything else; "REJECTED" is any other
\* line; "EOF" is a stream that ends before "\r\n".
Lines == {"OK", "REJECTED", "DATA", "BAD_DATA", "EOF"}

\* the keyring: the cookie is there, the file cannot be read, or no line of
\* three words starts with the cookie id
Keyrings == {"found", "no_file", "no_line"}

\* the socket as the handshake uses it: what was written, the transcript,
\* and whether the stream has ended
Written(io, text) ==
    [wire |-> Append(io.wire, Chunk(text, NoOut)),
     log  |-> Append(io.log, [dir |-> "w", text |-> text]),
     eof  |-> io.eof]

read_line(io, l) ==
    IF io.eof \/ l = "EOF"
    THEN [res |-> "Disconnected", line |-> "EOF",
          io |-> [io EXCEPT !.eof = TRUE]]
    ELSE [res |-> "Ok", line |-> l,
          io |-> [io EXCEPT !.log = Append(io.log, [dir |-> "r", text |-> l])]]

sock_send_nul_byte(io, w) ==
    IF ~w THEN [res |-> "IOError", io |-> io]
    ELSE [res |-> "Ok", io |-> Written(io, "NUL")]

\* the tail of a mechanism without the test of the response
begin_unchecked(io, l, w) ==
    LET resp == read_line(io, l) IN
    IF resp.res # "Ok" THEN [res |-> resp.res, io |-> resp.io]
    ELSE IF ~w THEN [res |-> "IOError", io |-> resp.io]
    ELSE [res |-> "Ok", io |-> Written(resp.io, "BEGIN")]

\* the tail the three mechanisms share: the final response must start with
\* "OK ", then BEGIN is written
expect_ok_then_begin(io, l, w) ==
    LET resp == read_line(io, l) IN
    IF resp.res # "Ok" THEN [res |-> resp.res, io |-> resp.io]
    ELSE IF resp.line # "OK" THEN [res |-> "AuthFailed", io |-> resp.io]
    ELSE IF ~w THEN [res |-> "IOError", io |-> resp.io]
    ELSE [res |-> "Ok", io |-> Written(resp.io, "BEGIN")]

\* e: the environment's part, [w1, l1, keyring, w2, l2, w3]
sock_auth_anonymous(io, e) ==
    IF ~e.w1 THEN [res |-> "IOError", io |-> io]
    ELSE expect_ok_then_begin(Written(io, "AUTH ANONYMOUS"), e.l1, e.w3)

sock_auth_external(io, e) ==
    IF ~e.w1 THEN [res |-> "IOError", io |-> io]
    ELSE expect_ok_then_begin(Written(io, "AUTH EXTERNAL"), e.l1, e.w3)

get_cookie(k) ==
    CASE k = "found"   -> "Ok"
      [] k = "no_file" -> "IOError"
      [] OTHER         -> "AuthFailed"

sock_auth_cookie(io, e) ==
    IF ~e.w1 THEN [res |-> "IOError", io |-> io]
    ELSE
    LET resp == read_line(Written(io, "AUTH DBUS_COOKIE_SHA1"), e.l1) IN
    IF resp.res # "Ok" THEN [res |-> resp.res, io |-> resp.io]
    ELSE IF resp.line # "DATA" THEN [res |-> "AuthFailed", io |-> resp.io]
    ELSE IF get_cookie(e.keyring) # "Ok"
         THEN [res |-> get_cookie(e.keyring), io |-> resp.io]
    ELSE IF ~e.w2 THEN [res |-> "IOError", io |-> resp.io]
    ELSE expect_ok_then_begin(Written(resp.io, "DATA"), e.l2, e.w3)

AuthEnv == [w1 : BOOLEAN, l1 : Lines, keyring : Keyrings, w2 : BOOLEAN,
            l2 : Lines, w3 : BOOLEAN]

\* authenticate() with and_then in place of or_else
authenticate_next_and_then(mech, res) ==
    CASE mech = "external" -> "cookie"
      [] mech = "cookie"   -> "anonymous"
      [] OTHER             -> IF res = "Ok" THEN "hello" ELSE "failed"

\* authenticate() without the try! around the attempts
authenticate_next_no_try(mech, res) ==
    IF res = "Ok" THEN "hello"
    ELSE CASE mech = "external" -> "cookie"
           [] mech = "cookie"   -> "anonymous"
           [] OTHER             -> "hello"

\* authenticate(): external, or else cookie, or else anonymous, then say_hello
authenticate_next(mech, res) ==
    IF res = "Ok" THEN "hello"
    ELSE CASE mech = "external" -> "cookie"
           [] mech = "cookie"   -> "anonymous"
           [] OTHER             -> "failed"

sock_auth(mech, io, e) ==
    CASE mech = "external" -> sock_auth_external(io, e)
      [] mech = "cookie"   -> sock_auth_cookie(io, e)
      [] OTHER             -> sock_auth_anonymous(io, e)

SendNul ==
    /\ phase = "new"
    /\ \E w \in BOOLEAN :
         LET r == sock_send_nul_byte(
                     [wire |-> wire, log |-> authLog, eof |-> sockEof], w) IN
         /\ wire' = r.io.wire
         /\ authLog' = r.io.log
         /\ IF r.res = "Ok"
            THEN phase' = "external" /\ UNCHANGED ret
            ELSE /\ phase' = "failed"
                 /\ ret' = Ret("connect", r.res, U32(0), NoMsg, "None", <<>>)
    /\ UNCHANGED <<serial, queue, pc, csSerial, local, assigned, nrecv,
                   sockEof, delivered, lastRead, attempts, rvars, dvars, pvars>>

Auth(mech) ==
    /\ phase = mech
    /\ \E e \in AuthEnv :
         LET r == sock_auth(mech,
                     [wire |-> wire, log |-> authLog, eof |-> sockEof], e) IN
         /\ wire' = r.io.wire
         /\ authLog' = r.io.log
         /\ sockEof' = r.io.eof
         /\ attempts' = Append(attempts, [mech |-> mech, res |-> r.res])
         /\ phase' = authenticate_next(mech, r.res)
         /\ IF phase' = "failed"
            THEN ret' = Ret("connect", r.res, U32(0), NoMsg, "None", <<>>)
            ELSE UNCHANGED ret
    /\ UNCHANGED <<serial, queue, pc, csSerial, local, assigned, nrecv,
                   delivered, lastRead, rvars, dvars, pvars>>

AuthExternal == Auth("external")

AuthCookie == Auth("cookie")

AuthAnonymous == Auth("anonymous")

SayHello ==
    /\ phase = "hello" /\ pc = "idle"
    /\ \E wr \in WriteOutcomes : CallSyncSend(Hello, wr, FALSE)

----------------------------------------------------------------------------
(* SpecAuth: connect_uds / connect_tcp from the construction of the         *)
(* Connection to their return.                                              *)

InitAuth ==
    /\ serial = U32(1)
    /\ queue = <<>>
    /\ phase = "new"
    /\ pc = "idle"
    /\ csSerial = U32(0)
    /\ local = <<>>
    /\ wire = <<>>
    /\ assigned = <<>>
    /\ nrecv = 0
    /\ sockEof = FALSE
    /\ delivered = <<>>
    /\ lastRead = NoRead
    /\ authLog = <<>>
    /\ attempts = <<>>
    /\ ret = NoRet
    /\ NoStream /\ NoDispatch /\ NoPure

NextAuth ==
    \/ SendNul
    \/ AuthExternal
    \/ AuthCookie
    \/ AuthAnonymous
    \/ SayHello
    \/ CallSyncLoop

SpecAuth == InitAuth /\ [][NextAuth]_vars

----------------------------------------------------------------------------
(* Helpers of the properties *)

\* the serials of the header chunks of a wire history, in order
RECURSIVE HeaderSerials(_)
HeaderSerials(w) ==
    IF w = <<>> THEN <<>>
    ELSE IF Head(w).part = "header"
         THEN <<Head(w).msg.serial>> \o HeaderSerials(Tail(w))
         ELSE HeaderSerials(Tail(w))

\* a is b with some elements left out
RECURSIVE IsSubSeq(_, _)
IsSubSeq(a, b) ==
    IF a = <<>> THEN TRUE
    ELSE IF b = <<>> THEN FALSE
    ELSE IF Head(a) = Head(b) THEN IsSubSeq(Tail(a), Tail(b))
    ELSE IsSubSeq(a, Tail(b))

Last(s) == s[Len(s)]

----------------------------------------------------------------------------
(* Properties of the connected Connection (Spec) *)

\* C1: the messages call_sync read and did not return come back from read_msg
\* in the order the socket delivered them, and before any fresh message: the
\* ids of the messages read_msg returns grow strictly.  (SpecConnected)
C1_RequeuedInReceiveOrder == IsIncreasing(delivered)

\* C2: call_sync returns Ok only with the decoded body of a message whose
\* ReplySerial is a u32 equal to the serial its own send stamped (the serial of
\* the last header on the wire), and every message it read before that one
\* had no ReplySerial or a different one.
C2_CallSyncReturnsMatchingReply ==
    (ret.op = "call_sync" /\ ret.kind = "Ok") =>
        /\ ret.msg.hdr = "u32"
        /\ ret.msg.rs = ret.serial
        /\ HeaderSerials(wire) # <<>>
        /\ Last(HeaderSerials(wire)) = ret.serial
        /\ Last(assigned) = ret.serial
        /\ \A i \in 1..Len(ret.skipped) :
              ~(ret.skipped[i].hdr = "u32" /\ ret.skipped[i].rs = ret.serial)
        /\ ret.body = (IF ret.msg.body = "empty" THEN "None" ELSE "Some")
        /\ ret.msg.body # "bad"

C2_Witness ==
    /\ ret.op = "call_sync" /\ ret.kind = "Ok" /\ ret.body = "Some"
    /\ \E i \in 1..Len(ret.skipped) :
          ret.skipped[i].hdr = "u32" /\ ret.skipped[i].rs # ret.serial
    /\ \E i \in 1..Len(ret.skipped) : ret.skipped[i].hdr = "none"

\* C3: every read_msg, the caller's or one of call_sync's loop, takes the
\* front of a non-empty queue and leaves the socket alone, and goes to the
\* socket only when the queue is empty.
C3_ReadMsgTakesQueueFront ==
    [][ (ret'.op = "read_msg" \/ pc = "cs_loop") =>
          IF queue # <<>>
          THEN /\ lastRead' = [src |-> "queue", msg |-> Head(queue)]
               /\ nrecv' = nrecv
               /\ sockEof' = sockEof
               /\ pc = "idle" => /\ ret'.kind = "Ok"
                                 /\ ret'.msg = Head(queue)
                                 /\ queue' = Tail(queue)
          ELSE /\ lastRead'.src = "sock"
               /\ pc = "idle" => queue' = <<>> ]_vars

C3_Witness ==
    /\ ret.op = "read_msg" /\ ret.kind = "Ok"
    /\ lastRead.src = "queue"
    /\ queue # <<>>

\* C4: each send returns the serial it stamped on the wire, and over the sends
\* of a connection the stamped serials grow strictly.
C4_SerialsStrictlyIncreasing ==
    /\ IsIncreasingU32(HeaderSerials(wire))
    /\ IsIncreasingU32(assigned)
    /\ (ret.op = "send" /\ ret.kind = "Ok") =>
          Last(HeaderSerials(wire)) = ret.serial

\* C5: the counter wraps from the largest u32 back to 1, so it is never 0 and
\* no message is written with serial 0.
C5_SerialNeverZero ==
    /\ serial # U32(0)
    /\ \A i \in 1..Len(wire) : wire[i].msg.serial # U32(0)

\* C6: on the wire each body directly follows the header of its own message,
\* the headers carry the serials in the order they were assigned, and a send
\* that returns Ok has written its header and then its body.
C6_WireInSendOrder ==
    /\ \A i \in 1..Len(wire) :
          wire[i].part = "body" =>
              i > 1 /\ wire[i - 1] = Chunk("header", wire[i].msg)
    /\ IsSubSeq(HeaderSerials(wire), assigned)
    /\ (ret.op = "send" /\ ret.kind = "Ok") =>
          /\ Len(wire) >= 2
          /\ wire[Len(wire) - 1].part = "header"
          /\ wire[Len(wire) - 1].msg.serial = ret.serial
          /\ wire[Len(wire)] = Chunk("body", wire[Len(wire) - 1].msg)

C6_Witness ==
    /\ Len(wire) = 4
    /\ wire[2].part = "body" /\ wire[4].part = "body"
    /\ wire[2].msg.serial # wire[4].msg.serial
    /\ ret.op = "send" /\ ret.kind = "Ok"

----------------------------------------------------------------------------
(* Properties of connect (SpecAuth) *)

MechOrder == <<"external", "cookie", "anonymous">>

AuthCommands == <<"AUTH EXTERNAL", "AUTH DBUS_COOKIE_SHA1", "AUTH ANONYMOUS">>

IsAuthCommand(text) == \E i \in 1..3 : AuthCommands[i] = text

\* the AUTH commands of a wire history, in order
RECURSIVE AuthWritten(_)
AuthWritten(w) ==
    IF w = <<>> THEN <<>>
    ELSE IF IsAuthCommand(Head(w).part)
         THEN <<Head(w).part>> \o AuthWritten(Tail(w))
         ELSE AuthWritten(Tail(w))

CountPart(w, part) == Cardinality({i \in 1..Len(w) : w[i].part = part})

HelloSent == [Hello EXCEPT !.serial = U32(1)]

\* C7: the mechanisms are tried in the order EXTERNAL, DBUS_COOKIE_SHA1,
\* ANONYMOUS, each at most once; a mechanism is tried only after every
\* earlier attempt returned an error; no AUTH command follows BEGIN.
C7_MechanismsInOrder ==
    /\ Len(attempts) <= 3
    /\ \A i \in 1..Len(attempts) : attempts[i].mech = MechOrder[i]
    /\ \A i \in 1..Len(attempts) - 1 : attempts[i].res # "Ok"
    /\ IsSubSeq(AuthWritten(wire), AuthCommands)
    /\ \A i \in 1..Len(wire) : \A j \in i + 1..Len(wire) :
          wire[i].part = "BEGIN" => ~IsAuthCommand(wire[j].part)

C7_Witness ==
    /\ Len(attempts) = 3
    /\ attempts[3].res = "Ok"
    /\ AuthWritten(wire) = AuthCommands
    /\ Last(wire).part = "BEGIN"

\* C8: the first thing written is one NUL byte and no other NUL follows;
\* BEGIN is written once if an attempt succeeded and never otherwise, always
\* directly after an "OK " line; no message is written before BEGIN.
C8_NulFirstBeginAfterOk ==
    /\ wire # <<>> => wire[1].part = "NUL"
    /\ CountPart(wire, "NUL") <= 1
    /\ \A i \in 1..Len(authLog) :
          authLog[i] = [dir |-> "w", text |-> "BEGIN"] =>
              i > 1 /\ authLog[i - 1] = [dir |-> "r", text |-> "OK"]
    /\ CountPart(wire, "BEGIN") =
          (IF \E i \in 1..Len(attempts) : attempts[i].res = "Ok" THEN 1 ELSE 0)
    /\ phase \in {"hello", "connected"} => CountPart(wire, "BEGIN") = 1
    /\ \A i \in 1..Len(wire) :
          wire[i].part \in {"header", "body"} =>
              \E j \in 1..i - 1 : wire[j].part = "BEGIN"

C8_Witness ==
    /\ phase = "connected"
    /\ Len(attempts) = 2
    /\ \E i \in 1..Len(authLog) : authLog[i] = [dir |-> "r", text |-> "DATA"]
    /\ CountPart(wire, "BEGIN") = 1

\* C9: the only message connect sends is the Hello call, with serial 1 and
\* directly after BEGIN; connect returns a Connection only after call_sync
\* returned a message whose ReplySerial is 1; when the stream ends before
\* that, connect fails with Disconnected.
C9_HelloThenReply ==
    /\ \A i \in 1..Len(wire) :
          wire[i].part = "header" =>
              /\ wire[i].msg = HelloSent
              /\ i > 1 /\ wire[i - 1].part = "BEGIN"
    /\ phase = "connected" =>
          /\ ret.op = "call_sync" /\ ret.kind = "Ok"
          /\ ret.msg.hdr = "u32" /\ ret.msg.rs = U32(1)
          /\ lastRead.msg = ret.msg
          /\ \E i \in 1..Len(wire) : wire[i] = Chunk("body", HelloSent)
          /\ ~sockEof
          /\ pc = "idle"
    /\ (sockEof /\ CountPart(wire, "header") > 0) =>
          /\ phase = "failed"
          /\ ret.op = "call_sync" /\ ret.kind = "Disconnected"

C9_Witness ==
    /\ phase = "connected"
    /\ Len(queue) = 2
    /\ nrecv = 3

C9_WitnessDisconnected ==
    /\ phase = "failed" /\ sockEof /\ CountPart(wire, "body") = 1 /\ nrecv = 1

\* C10: when all three attempts end in AuthFailed, connect has failed with
\* AuthFailed, the three AUTH commands were written once each and in order,
\* and neither BEGIN nor any message was written.
C10_AllRefused ==
    (Len(attempts) = 3 /\ \A i \in 1..3 : attempts[i].res = "AuthFailed") =>
        /\ phase = "failed"
        /\ ret.op = "connect" /\ ret.kind = "AuthFailed"
        /\ \A i \in 1..3 : attempts[i].mech = MechOrder[i]
        /\ AuthWritten(wire) = AuthCommands
        /\ CountPart(wire, "BEGIN") = 0
        /\ CountPart(wire, "header") = 0 /\ CountPart(wire, "body") = 0
        /\ serial = U32(1) /\ assigned = <<>>

C10_Witness ==
    /\ Len(attempts) = 3
    /\ \A i \in 1..3 : attempts[i].res = "AuthFailed"
    /\ Cardinality({i \in 1..Len(authLog) :
                      authLog[i] = [dir |-> "r", text |-> "REJECTED"]}) = 3
    /\ ret.kind = "AuthFailed"

----------------------------------------------------------------------------
(* Claims about call_sync, checked under Spec *)

\* the messages call_sync's two assertions refuse
IsBadCall(mbuf) ==
    mbuf.mtype # MESSAGE_TYPE_METHOD_CALL \/ mbuf.flags % 2 # 0

\* C13: call_sync on a message that is not a MethodCall, or that has
\* NO_REPLY_EXPECTED set, panics (it returns no Error value) and does so
\* before the send: the step writes nothing and consumes no serial.
C13_BadCallPanicsUnsent ==
    [][\A mbuf \in OutMsgs, wr \in WriteOutcomes, checks \in BOOLEAN :
         (phase = "connected" /\ pc = "idle" /\ IsBadCall(mbuf)
            /\ CallSyncSend(mbuf, wr, checks))
         => /\ pc' = "panicked"
            /\ ret'.op = "call_sync" /\ ret'.kind = "panic"
            /\ UNCHANGED <<serial, wire, assigned, rvars, dvars>>]_vars

C13_Witness ==
    /\ ret.op = "call_sync" /\ ret.kind = "panic"
    /\ pc = "panicked"
    /\ serial = U32(2) /\ assigned = <<>> /\ wire = <<>>

\* SpecLive: Spec with call_sync's loop running on: call_sync is synchronous
\* code that loops on a blocking read, so a turn that can be taken is taken.
SpecLive == Init /\ [][Next]_vars /\ WF_vars(CallSyncLoop)

\* a message of the stream that call_sync decodes without a panic
IsWellFormed(m) == m.hdr \in {"none", "u32"} /\ m.body # "bad"

IsMatchingReply(m, s) == m.hdr = "u32" /\ m.rs = s

\* one turn of the loop: what it read (id 0: the read failed), and what
\* became of the call
C12_Turn ==
    pc = "cs_loop" =>
      LET m == lastRead'.msg IN
      /\ (m.id # 0 /\ IsWellFormed(m) /\ IsMatchingReply(m, csSerial))
         => /\ pc' = "idle"
            /\ ret'.op = "call_sync" /\ ret'.kind = "Ok" /\ ret'.msg = m
      /\ (m.id # 0 /\ IsWellFormed(m) /\ ~IsMatchingReply(m, csSerial))
         => /\ pc' = "cs_loop"
            /\ local' = Append(local, m)
            /\ ret' = ret
      /\ pc' = "idle" =>
            \/ ret'.kind = "Ok" /\ IsMatchingReply(m, csSerial) /\ ret'.msg = m
            \/ ret'.kind \in {"Disconnected", "DemarshalError"}

\* C12: call_sync keeps reading until a matching reply is read or a read fails:
\* a turn that reads a well-formed message with another ReplySerial, or with
\* none, stays in the loop; the turn that reads the matching reply returns it;
\* the call returns before that only with an error; and the loop always comes
\* to one of these ends.
C12_ReadsUntilReplyOrError ==
    /\ [][C12_Turn]_vars
    /\ (pc = "cs_loop") ~> (ret.op = "call_sync" /\ ret.kind # "pending")

C12_Witness ==
    /\ ret.op = "call_sync" /\ ret.kind = "Ok"
    /\ Len(ret.skipped) = 2
    /\ \A i \in 1..2 : IsWellFormed(ret.skipped[i])
    /\ lastRead = [src |-> "sock", msg |-> ret.msg]
    /\ ret.msg.id = 3

----------------------------------------------------------------------------
(* SpecRead: read_msg down to the bytes sock_read_msg asks the socket for.  *)
(* The stream holds messages of one layout, little-endian as demarshal      *)
(* reads them, and ends after sock.avail bytes.                             *)

\* bytes of the header-field array of the messages of the stream
MaxArrLen == 8
\* bytes of their body
MaxBodyLen == 2
\* bytes the stream holds before it ends
MaxAvail == 48

\* sock.take(len).read_to_end(buf): the bytes read are those left, up to len
take_read_to_end(avail, len) == IF avail < len THEN avail ELSE len

\* read_exactly that does not compare the count with len
read_exactly_unchecked(avail, len) ==
    [res |-> "Ok", avail |-> avail - take_read_to_end(avail, len)]

read_exactly(avail, len) ==
    LET n == take_read_to_end(avail, len) IN
    [res |-> IF n # len THEN "Disconnected" ELSE "Ok", avail |-> avail - n]

trailing_pad(offset) == 8 - (offset % 8)

Ended(stage, res, avail) == [stage |-> stage, res |-> res, avail |-> avail]

\* s: the stream.  s.fields tells what demarshal makes of the bytes of the
\* header-field array: "good", "corrupt" (a DemarshalError) or "overrun" (a
\* string length that runs past the array: buf.remove(0) on an empty Vec).
sock_read_stages(s) ==
    LET r1 == read_exactly(s.avail, 12) IN
    IF r1.res # "Ok" THEN Ended("fixed header", r1.res, r1.avail) ELSE
    LET r2 == read_exactly(r1.avail, 4) IN
    IF r2.res # "Ok" THEN Ended("array length", r2.res, r2.avail) ELSE
    LET n3 == take_read_to_end(r2.avail, s.arr_len)
        a3 == r2.avail - n3 IN
    IF n3 # s.arr_len THEN Ended("header array", "Disconnected", a3) ELSE
    IF s.fields = "corrupt" THEN Ended("header array", "DemarshalError", a3) ELSE
    IF s.fields = "overrun" THEN Ended("header array", "panic", a3) ELSE
    LET offset == 12 + 4 + s.arr_len
        r4 == IF trailing_pad(offset) % 8 # 0
              THEN read_exactly(a3, trailing_pad(offset))
              ELSE [res |-> "Ok", avail |-> a3] IN
    IF r4.res # "Ok" THEN Ended("padding", r4.res, r4.avail) ELSE
    LET r5 == IF s.body_len > 0
              THEN read_exactly(r4.avail, s.body_len)
              ELSE [res |-> "Ok", avail |-> r4.avail] IN
    IF r5.res # "Ok" THEN Ended("body", r5.res, r5.avail)
    ELSE Ended("complete", "Ok", r5.avail)

\* read_msg over the byte stream
ReadMsgBytes ==
    /\ phase = "stream" /\ pc = "idle"
    /\ LET p == pop_message(queue) IN
       IF p.some
       THEN /\ queue' = p.queue
            /\ lastRead' = [src |-> "queue", msg |-> p.msg]
            /\ ret' = Ret("read_msg", "Ok", U32(0), p.msg, "None", <<>>)
            /\ rdStage' = "queue"
            /\ UNCHANGED <<sock, nrecv, pc, sockEof>>
       ELSE LET r == sock_read_stages(sock)
                m == IF r.res = "Ok"
                     THEN [id |-> nrecv + 1, hdr |-> "none", rs |-> U32(0),
                           body |-> IF sock.body_len > 0 THEN "good"
                                    ELSE "empty"]
                     ELSE NoMsg IN
            /\ sock' = [sock EXCEPT !.avail = r.avail]
            /\ rdStage' = r.stage
            /\ nrecv' = IF r.res = "Ok" THEN nrecv + 1 ELSE nrecv
            /\ sockEof' = (sockEof \/ r.res = "Disconnected")
            /\ pc' = IF r.res = "panic" THEN "panicked" ELSE pc
            /\ lastRead' = [src |-> "sock", msg |-> m]
            /\ ret' = Ret("read_msg", r.res, U32(0), m, "None", <<>>)
            /\ UNCHANGED queue
    /\ UNCHANGED <<serial, phase, csSerial, local, wire, assigned, delivered,
                   authLog, attempts, dvars, pvars>>

\* the streams: every length of the array, of the body and of the stream
Streams ==
    [avail : 0..MaxAvail, arr_len : 1..MaxArrLen, body_len : 0..MaxBodyLen,
     fields : {"good", "corrupt", "overrun"}]

InitRead ==
    /\ serial = U32(2)
    /\ queue \in {<<>>, <<[id |-> 0, hdr |-> "u32", rs |-> OtherSerial,
                          body |-> "good"]>>}
    /\ phase = "stream"
    /\ pc = "idle"
    /\ csSerial = U32(0)
    /\ local = <<>>
    /\ wire = <<>>
    /\ assigned = <<>>
    /\ nrecv = 0
    /\ sockEof = FALSE
    /\ delivered = <<>>
    /\ lastRead = NoRead
    /\ authLog = <<>>
    /\ attempts = <<>>
    /\ ret = NoRet
    /\ sock \in Streams
    /\ rdStage = "none"
    /\ NoDispatch /\ NoPure

NextRead == ReadMsgBytes

SpecRead == InitRead /\ [][NextRead]_vars

\* the wire layout of a message: fixed header, array length, header-field
\* array, padding to a multiple of 8, body
PadTo8(n) == (8 - (n % 8)) % 8

MessageBytes(s) ==
    12 + 4 + s.arr_len + PadTo8(12 + 4 + s.arr_len) + s.body_len

\* the part of the layout in which a stream of n bytes ends
ShortStage(s, n) ==
    CASE n < 12                                        -> "fixed header"
      [] n < 12 + 4                                    -> "array length"
      [] n < 12 + 4 + s.arr_len                        -> "header array"
      [] n < 12 + 4 + s.arr_len + PadTo8(16 + s.arr_len) -> "padding"
      [] n < MessageBytes(s)                           -> "body"
      [] OTHER                                         -> "complete"

\* C11: read_msg that goes to the socket returns Disconnected whenever the
\* stream ends before the whole message: in the 12 bytes of the fixed header,
\* the 4 bytes of the array length, the header-field array, the padding or
\* the body; and it returns a message only when all its bytes were there.
C11_ShortStreamDisconnected ==
    [][(phase = "stream" /\ pc = "idle" /\ queue = <<>>) =>
         /\ sock.avail < 12 + 4 + sock.arr_len =>
               /\ ret'.kind = "Disconnected"
               /\ rdStage' = ShortStage(sock, sock.avail)
         /\ (sock.fields = "good" /\ sock.avail < MessageBytes(sock)) =>
               /\ ret'.kind = "Disconnected"
               /\ rdStage' = ShortStage(sock, sock.avail)
         /\ ret'.kind = "Ok" =>
               /\ sock.avail >= MessageBytes(sock)
               /\ sock'.avail = sock.avail - MessageBytes(sock)]_vars

\* a second message of the stream cut off in its padding
C11_Witness ==
    /\ phase = "stream"
    /\ ret.op = "read_msg" /\ ret.kind = "Disconnected"
    /\ rdStage = "padding"
    /\ nrecv = 1

C11_WitnessBody ==
    /\ phase = "stream"
    /\ ret.op = "read_msg" /\ ret.kind = "Disconnected"
    /\ rdStage = "body"
    /\ sock.body_len = 2 /\ sock.arr_len = 8

----------------------------------------------------------------------------
(* The codec: marshal.rs and demarshal.rs.  A buffer is a sequence of      *)
(* bytes, a signature a sequence of one-character strings, a string the    *)
(* sequence of its bytes.  A Value is a record of one shape: kind names    *)
(* the variant of Value / BasicValue, n holds an integer, s the bytes of   *)
(* a string, sig a signature, objects the values inside.                   *)

\* Value::BasicValue of an integer kind ("Byte", "Boolean", "Int16", ...)
Basic(kind, n) == [NoValue EXCEPT !.kind = kind, !.n = n]
\* BasicValue::String or BasicValue::ObjectPath
Str(kind, s) == [NoValue EXCEPT !.kind = kind, !.s = s]
\* BasicValue::Signature
SignatureValue(sig) == [NoValue EXCEPT !.kind = "Signature", !.sig = sig]
\* Array::new_with_sig, Struct { objects, signature }
Array(objects, sig) ==
    [NoValue EXCEPT !.kind = "Array", !.objects = objects, !.sig = sig]
Struct(objects, sig) ==
    [NoValue EXCEPT !.kind = "Struct", !.objects = objects, !.sig = sig]
\* an entry of a HashMap<BasicValue, Value>
DictEntry(key, value) ==
    [NoValue EXCEPT !.kind = "DictEntry", !.objects = <<key, value>>]
\* Dictionary::new_with_sig: the entries in the order the map yields them
Dictionary(entries, sig) ==
    [NoValue EXCEPT !.kind = "Dictionary", !.objects = entries, !.sig = sig]
\* Variant { object, signature }
Variant(object, sig) ==
    [NoValue EXCEPT !.kind = "Variant", !.objects = <<object>>, !.sig = sig]
\* a Rust Vec<T> of marshallable items, handed to dbus_encode as it is
Vec(objects) == [NoValue EXCEPT !.kind = "Vec", !.objects = objects]

\* the characters of signatures and their bytes
SigChars ==
    << <<"y", 121>>, <<"b", 98>>, <<"n", 110>>, <<"q", 113>>, <<"i", 105>>,
       <<"u", 117>>, <<"x", 120>>, <<"t", 116>>, <<"s", 115>>, <<"o", 111>>,
       <<"g", 103>>, <<"a", 97>>, <<"v", 118>>, <<"d", 100>>, <<"(", 40>>,
       <<")", 41>>, <<"{", 123>>, <<"}", 125>> >>

\* String::into_bytes of a signature
CharCode(c) ==
    SigChars[CHOOSE j \in 1..Len(SigChars) : SigChars[j][1] = c][2]

into_bytes(sig) == [i \in 1..Len(sig) |-> CharCode(sig[i])]

\* the character of a byte; "?" is any character that is no type code
CodeChar(b) ==
    IF \E j \in 1..Len(SigChars) : SigChars[j][2] = b
    THEN SigChars[CHOOSE j \in 1..Len(SigChars) : SigChars[j][2] = b][1]
    ELSE "?"

SigOfBytes(bytes) == [i \in 1..Len(bytes) |-> CodeChar(bytes[i])]

\* String::from_utf8 accepts the bytes: sequences of one and of two bytes
\* (the model's strings hold no byte from 0xE0 on)
RECURSIVE IsUtf8(_)
IsUtf8(bytes) ==
    IF bytes = <<>> THEN TRUE
    ELSE IF bytes[1] < 128 THEN IsUtf8(Tail(bytes))
    ELSE IF /\ bytes[1] >= 194 /\ bytes[1] <= 223 /\ Len(bytes) >= 2
            /\ bytes[2] >= 128 /\ bytes[2] <= 191
    THEN IsUtf8(Tail(Tail(bytes)))
    ELSE FALSE

(* marshal.rs *)

pad_to_multiple(buf, len) ==
    buf \o [i \in 1..((len - (Len(buf) % len)) % len) |-> 0]

\* the first len bytes of x.to_le(), x being the value cast to u64
RECURSIVE le_bytes(_, _)
le_bytes(x, len) ==
    IF len = 0 THEN <<>> ELSE <<x % 256>> \o le_bytes(x \div 256, len - 1)

marshal_int(x, len, buf) == pad_to_multiple(buf, len) \o le_bytes(x, len)

marshal_string(x, buf) == (marshal_int(Len(x), 4, buf) \o x) \o <<0>>

marshal_signature(x, buf) ==
    (Append(buf, Len(x) % 256) \o into_bytes(x)) \o <<0>>

\* BasicValue::get_type
TypeCode(kind) ==
    CASE kind = "Byte"       -> "y"
      [] kind = "Boolean"    -> "b"
      [] kind = "Int16"      -> "n"
      [] kind = "Uint16"     -> "q"
      [] kind = "Int32"      -> "i"
      [] kind = "Uint32"     -> "u"
      [] kind = "Int64"      -> "x"
      [] kind = "Uint64"     -> "t"
      [] kind = "String"     -> "s"
      [] kind = "ObjectPath" -> "o"
      [] kind = "Signature"  -> "g"
      [] OTHER               -> "?"

\* the bytes an integer kind takes
IntLen(kind) ==
    CASE kind = "Byte"                       -> 1
      [] kind \in {"Int16", "Uint16"}        -> 2
      [] kind \in {"Int32", "Uint32"}        -> 4
      [] kind = "Boolean"                    -> 4
      [] OTHER                               -> 8

\* get_type of a Marshal: the signature, or <<"!">> where the code unwraps
\* the first item of an empty collection and panics
RECURSIVE get_type(_)
get_type(v) ==
    CASE v.kind = "Vec" ->
            IF v.objects = <<>> THEN <<"!">>
            ELSE <<"a">> \o get_type(v.objects[1])
      [] v.kind = "Array" ->
            IF v.objects = <<>> THEN <<"!">> ELSE get_type(v.objects[1])
      [] v.kind = "Variant" -> <<"v">>
      [] v.kind = "Struct" -> v.sig
      [] v.kind = "DictEntry" ->
            (<<"{">> \o get_type(v.objects[1]) \o get_type(v.objects[2]))
            \o <<"}">>
      [] v.kind = "Dictionary" ->
            IF v.objects = <<>> THEN <<"!">>
            ELSE (<<"a", "{">> \o get_type(v.objects[1].objects[1])
                  \o get_type(v.objects[1].objects[2])) \o <<"}">>
      [] OTHER -> <<TypeCode(v.kind)>>

\* Vec<T>::dbus_encode once the items are encoded: b is the buffer with the
\* place-holder length and the items, start_len its length before them
update_len(b, start_len) ==
    (SubSeq(b, 1, start_len - 4) \o le_bytes(Len(b) - start_len, 4))
    \o SubSeq(b, start_len + 1, Len(b))

RECURSIVE dbus_encode(_, _)
RECURSIVE encode_each(_, _)

\* for x in self { x.dbus_encode(buf) }
encode_each(objects, buf) ==
    IF objects = <<>> THEN buf
    ELSE encode_each(Tail(objects), dbus_encode(Head(objects), buf))

dbus_encode(v, buf) ==
    CASE v.kind = "Byte" -> Append(buf, v.n)
      [] v.kind \in {"Boolean", "Int16", "Uint16", "Int32", "Uint32",
                     "Int64", "Uint64"} ->
            marshal_int(v.n, IntLen(v.kind), buf)
      [] v.kind \in {"String", "ObjectPath"} -> marshal_string(v.s, buf)
      [] v.kind = "Signature" -> marshal_signature(v.sig, buf)
      [] v.kind \in {"Struct", "DictEntry"} ->
            encode_each(v.objects, pad_to_multiple(buf, 8))
      [] v.kind \in {"Vec", "Array", "Dictionary"} ->
            update_len(encode_each(v.objects, marshal_int(0, 4, buf)),
                       Len(marshal_int(0, 4, buf)))
      [] v.kind = "Variant" ->
            dbus_encode(v.objects[1], marshal_signature(v.sig, buf))
      [] OTHER -> buf

(* demarshal.rs.  Every demarshal_* returns what the Rust function returns *)
(* and leaves: res is "Ok", the DemarshalError or "panic"; buf, offset and *)
(* sig are the three &mut arguments afterwards.                            *)

Demarshalled(res, val, buf, offset, sig) ==
    [res |-> res, val |-> val, buf |-> buf, offset |-> offset, sig |-> sig]

\* 1 << 26
ArrayLenLimit == 67108864

\* get_alignment; 0 stands for its panic on a character that is no type
get_alignment(c) ==
    CASE c \in {"y", "b", "g", "v"}      -> 1
      [] c \in {"n", "q"}                -> 2
      [] c \in {"i", "u", "s", "o", "a"} -> 4
      [] c \in {"x", "t", "(", "{"}      -> 8
      [] OTHER                           -> 0

\* align_to that takes the padding off the buffer and leaves the offset
align_to_offset_kept(buf, offset, align) ==
    LET delta == align - (offset % align) IN
    IF offset % align = 0 THEN [res |-> "Ok", buf |-> buf, offset |-> offset]
    ELSE IF Len(buf) < delta
    THEN [res |-> "MessageTooShort", buf |-> buf, offset |-> offset]
    ELSE [res |-> "Ok", buf |-> SubSeq(buf, delta + 1, Len(buf)),
          offset |-> offset]

align_to(buf, offset, align) ==
    LET delta == align - (offset % align) IN
    IF offset % align = 0 THEN [res |-> "Ok", buf |-> buf, offset |-> offset]
    ELSE IF Len(buf) < delta
    THEN [res |-> "MessageTooShort", buf |-> buf, offset |-> offset]
    ELSE [res |-> "Ok", buf |-> SubSeq(buf, delta + 1, Len(buf)),
          offset |-> offset + delta]

\* the number a little-endian byte array holds, unsigned and sign-extended
RECURSIVE le_value(_)
le_value(bytes) ==
    IF bytes = <<>> THEN 0 ELSE Head(bytes) + 256 * le_value(Tail(bytes))

RECURSIVE le_signed(_)
le_signed(bytes) ==
    IF Len(bytes) = 1
    THEN (IF bytes[1] >= 128 THEN bytes[1] - 256 ELSE bytes[1])
    ELSE Head(bytes) + 256 * le_signed(Tail(bytes))

IntKind(len, is_signed) ==
    IF is_signed
    THEN (CASE len = 2 -> "Int16" [] len = 4 -> "Int32" [] len = 8 -> "Int64"
            [] OTHER -> "panic")
    ELSE (CASE len = 1 -> "Byte" [] len = 2 -> "Uint16" [] len = 4 -> "Uint32"
            [] len = 8 -> "Uint64" [] OTHER -> "panic")

demarshal_byte(buf, offset, sig) ==
    IF Len(buf) < 1
    THEN Demarshalled("MessageTooShort", NoValue, buf, offset, sig)
    ELSE Demarshalled("Ok", Basic("Byte", buf[1]), Tail(buf), offset + 1, sig)

\* demarshal_bool after its align_to
bool_aligned(a, sig) ==
    IF a.res # "Ok" THEN Demarshalled(a.res, NoValue, a.buf, a.offset, sig)
    ELSE IF Len(a.buf) < 4
    THEN Demarshalled("MessageTooShort", NoValue, a.buf, a.offset, sig)
    ELSE IF \/ a.buf[2] # 0 \/ a.buf[3] # 0 \/ a.buf[4] # 0
            \/ a.buf[1] \notin {0, 1}
    THEN Demarshalled("CorruptedMessage", NoValue,
                      SubSeq(a.buf, 5, Len(a.buf)), a.offset + 4, sig)
    ELSE Demarshalled("Ok", Basic("Boolean", a.buf[1]),
                      SubSeq(a.buf, 5, Len(a.buf)), a.offset + 4, sig)

\* demarshal_bool that aligns as get_alignment has it for 'b'
demarshal_bool_by_table(buf, offset, sig) ==
    bool_aligned(align_to(buf, offset, get_alignment("b")), sig)

demarshal_bool(buf, offset, sig) == bool_aligned(align_to(buf, offset, 4), sig)

\* demarshal_int after its align_to
int_aligned(a, len, is_signed, sig) ==
    IF a.res # "Ok" THEN Demarshalled(a.res, NoValue, a.buf, a.offset, sig)
    ELSE IF Len(a.buf) < len
    THEN Demarshalled("MessageTooShort", NoValue, a.buf, a.offset, sig)
    ELSE Demarshalled("Ok",
            Basic(IntKind(len, is_signed),
                  IF is_signed THEN le_signed(SubSeq(a.buf, 1, len))
                  ELSE le_value(SubSeq(a.buf, 1, len))),
            SubSeq(a.buf, len + 1, Len(a.buf)), a.offset + len, sig)

demarshal_int(buf, offset, len, is_signed, sig) ==
    int_aligned(align_to(buf, offset, len), len, is_signed, sig)

\* demarshal_string after the demarshal_int of its length
string_counted(l, count_size, is_path, sig) ==
    IF l.res # "Ok"
    THEN Demarshalled("CorruptedMessage", NoValue, l.buf, l.offset, sig)
    ELSE IF Len(l.buf) < l.val.n + 1
    THEN Demarshalled("panic", NoValue, <<>>, l.offset + Len(l.buf), sig)
    ELSE IF l.buf[l.val.n + 1] # 0
    THEN Demarshalled("CorruptedMessage", NoValue,
                      SubSeq(l.buf, l.val.n + 2, Len(l.buf)),
                      l.offset + l.val.n, sig)
    ELSE IF ~IsUtf8(SubSeq(l.buf, 1, l.val.n))
    THEN Demarshalled("BadUTF8", NoValue,
                      SubSeq(l.buf, l.val.n + 2, Len(l.buf)),
                      l.offset + l.val.n + 1, sig)
    ELSE Demarshalled("Ok",
            IF is_path THEN Str("ObjectPath", SubSeq(l.buf, 1, l.val.n))
            ELSE IF count_size = 4
            THEN Str("String", SubSeq(l.buf, 1, l.val.n))
            ELSE SignatureValue(SigOfBytes(SubSeq(l.buf, 1, l.val.n))),
            SubSeq(l.buf, l.val.n + 2, Len(l.buf)),
            l.offset + l.val.n + 1, sig)

demarshal_string(buf, offset, count_size, is_path, sig) ==
    string_counted(demarshal_int(buf, offset, count_size, FALSE, sig),
                   count_size, is_path, sig)

RECURSIVE demarshal(_, _, _)
RECURSIVE array_elements(_, _, _, _, _, _)
RECURSIVE struct_elements(_, _, _, _)

\* the entries of the HashMap built from the elements of a dictionary: a
\* later entry of the same key replaces the earlier one
map_insert(entries, e) ==
    IF \E i \in 1..Len(entries) : entries[i].objects[1] = e.objects[1]
    THEN [i \in 1..Len(entries) |->
            IF entries[i].objects[1] = e.objects[1] THEN e ELSE entries[i]]
    ELSE Append(entries, e)

RECURSIVE as_map(_, _)
as_map(vec, entries) ==
    IF vec = <<>> THEN entries
    ELSE as_map(Tail(vec),
                map_insert(entries,
                           DictEntry(Head(vec).objects[1],
                                     Head(vec).objects[2])))

\* for x in vec: a panic unless x is a Struct of a BasicValue key and one
\* more object
dict_panics(vec) ==
    \E i \in 1..Len(vec) :
       \/ vec[i].kind # "Struct"
       \/ Len(vec[i].objects) < 2
       \/ TypeCode(vec[i].objects[1].kind) = "?"

\* demarshal_array once its elements are read: e is what the loop left,
\* sig the signature it started from
array_done(e, sig, is_dict) ==
    IF e.res # "Ok" THEN Demarshalled(e.res, NoValue, e.buf, e.offset, sig)
    ELSE IF is_dict /\ dict_panics(e.vec)
    THEN Demarshalled("panic", NoValue, e.buf, e.offset, e.sig_copy)
    ELSE Demarshalled("Ok",
            IF is_dict
            THEN Dictionary(as_map(e.vec, <<>>),
                            <<"a">> \o SubSeq(sig, 1, Len(sig) - Len(e.sig_copy)))
            ELSE Array(e.vec,
                       <<"a">> \o SubSeq(sig, 1, Len(sig) - Len(e.sig_copy))),
            e.buf, e.offset, e.sig_copy)

\* vec.push(try!(demarshal(buf, offset, &mut sig_copy))): r is what that
\* demarshal returned
array_element(r, sig, end, vec) ==
    IF r.res # "Ok"
    THEN [res |-> r.res, vec |-> vec, buf |-> r.buf, offset |-> r.offset,
          sig_copy |-> r.sig]
    ELSE array_elements(r.buf, r.offset, sig, end, Append(vec, r.val), r.sig)

\* while *offset < start_offset + array_len
array_elements(buf, offset, sig, end, vec, sig_copy) ==
    IF offset >= end
    THEN [res |-> "Ok", vec |-> vec, buf |-> buf, offset |-> offset,
          sig_copy |-> sig_copy]
    ELSE array_element(demarshal(buf, offset, sig), sig, end, vec)

\* demarshal_array after the align_to of its first element
array_aligned(a, array_len, sig) ==
    IF a.res # "Ok" THEN Demarshalled(a.res, NoValue, a.buf, a.offset, sig)
    ELSE IF Len(a.buf) < array_len
    THEN Demarshalled("MessageTooShort", NoValue, a.buf, a.offset, sig)
    ELSE array_done(array_elements(a.buf, a.offset, sig,
                                   a.offset + array_len, <<>>, <<>>),
                    sig, sig[1] = "{")

\* demarshal_array that rejects a declared length of 1 << 26 as well
array_counted_inclusive(l, sig) ==
    IF l.res # "Ok"
    THEN Demarshalled("CorruptedMessage", NoValue, l.buf, l.offset, sig)
    ELSE IF l.val.n >= ArrayLenLimit
    THEN Demarshalled("ElementTooBig", NoValue, l.buf, l.offset, sig)
    ELSE IF get_alignment(sig[1]) = 0
    THEN Demarshalled("panic", NoValue, l.buf, l.offset, sig)
    ELSE array_aligned(align_to(l.buf, l.offset, get_alignment(sig[1])),
                       l.val.n, sig)

\* demarshal_array after the demarshal_int of its length
array_counted(l, sig) ==
    IF l.res # "Ok"
    THEN Demarshalled("CorruptedMessage", NoValue, l.buf, l.offset, sig)
    ELSE IF l.val.n > ArrayLenLimit
    THEN Demarshalled("ElementTooBig", NoValue, l.buf, l.offset, sig)
    ELSE IF get_alignment(sig[1]) = 0
    THEN Demarshalled("panic", NoValue, l.buf, l.offset, sig)
    ELSE array_aligned(align_to(l.buf, l.offset, get_alignment(sig[1])),
                       l.val.n, sig)

demarshal_array(buf, offset, sig) ==
    IF Len(sig) < 1
    THEN Demarshalled("BadSignature", NoValue, buf, offset, sig)
    ELSE array_counted(demarshal_int(buf, offset, 4, FALSE, sig), sig)

\* demarshal_struct once its loop has ended: mysig is the signature it
\* started from
struct_done(e, mysig) ==
    IF e.res # "Ok" THEN Demarshalled(e.res, NoValue, e.buf, e.offset, e.sig)
    ELSE Demarshalled("Ok",
            Struct(e.vec,
                   <<"(">> \o SubSeq(mysig, 1, Len(mysig) - Len(e.sig))),
            e.buf, e.offset, e.sig)

\* vec.push(try!(demarshal(buf, offset, sig)))
struct_element(r, vec) ==
    IF r.res # "Ok"
    THEN [res |-> r.res, vec |-> vec, buf |-> r.buf, offset |-> r.offset,
          sig |-> r.sig]
    ELSE struct_elements(r.buf, r.offset, r.sig, Append(vec, r.val))

\* the loop of demarshal_struct, up to the closing parenthesis
struct_elements(buf, offset, sig, vec) ==
    IF sig = <<>>
    THEN [res |-> "MismatchedParens", vec |-> vec, buf |-> buf,
          offset |-> offset, sig |-> sig]
    ELSE IF sig[1] = ")"
    THEN [res |-> "Ok", vec |-> vec, buf |-> buf, offset |-> offset,
          sig |-> Tail(sig)]
    ELSE struct_element(demarshal(buf, offset, sig), vec)

\* demarshal_struct after its align_to
struct_aligned(a, sig) ==
    IF a.res # "Ok" THEN Demarshalled(a.res, NoValue, a.buf, a.offset, sig)
    ELSE struct_done(struct_elements(a.buf, a.offset, sig, <<>>), sig)

demarshal_struct(buf, offset, sig) ==
    IF Len(sig) < 1
    THEN Demarshalled("BadSignature", NoValue, buf, offset, sig)
    ELSE struct_aligned(align_to(buf, offset, 8), sig)

\* demarshal_variant once the value is read
variant_done(r, vsig, sig) ==
    IF r.res # "Ok" THEN Demarshalled(r.res, NoValue, r.buf, r.offset, sig)
    ELSE Demarshalled("Ok", Variant(r.val, vsig), r.buf, r.offset, sig)

\* demarshal_variant after the demarshal of its signature
variant_of(g, sig) ==
    IF g.res # "Ok" THEN Demarshalled(g.res, NoValue, g.buf, g.offset, sig)
    ELSE IF g.val.sig = <<>>
    THEN Demarshalled("panic", NoValue, g.buf, g.offset, sig)
    ELSE variant_done(demarshal(g.buf, g.offset, g.val.sig), g.val.sig, sig)

demarshal_variant(buf, offset, sig) ==
    variant_of(demarshal(buf, offset, <<"g">>), sig)

demarshal(buf, offset, sig) ==
    IF sig = <<>> THEN Demarshalled("panic", NoValue, buf, offset, sig)
    ELSE CASE sig[1] = "y" -> demarshal_byte(buf, offset, Tail(sig))
           [] sig[1] = "b" -> demarshal_bool(buf, offset, Tail(sig))
           [] sig[1] = "n" -> demarshal_int(buf, offset, 2, TRUE, Tail(sig))
           [] sig[1] = "q" -> demarshal_int(buf, offset, 2, FALSE, Tail(sig))
           [] sig[1] = "i" -> demarshal_int(buf, offset, 4, TRUE, Tail(sig))
           [] sig[1] = "u" -> demarshal_int(buf, offset, 4, FALSE, Tail(sig))
           [] sig[1] = "x" -> demarshal_int(buf, offset, 8, TRUE, Tail(sig))
           [] sig[1] = "t" -> demarshal_int(buf, offset, 8, FALSE, Tail(sig))
           [] sig[1] = "s" -> demarshal_string(buf, offset, 4, FALSE, Tail(sig))
           [] sig[1] = "o" -> demarshal_string(buf, offset, 4, TRUE, Tail(sig))
           [] sig[1] = "g" -> demarshal_string(buf, offset, 1, FALSE, Tail(sig))
           [] sig[1] = "a" -> demarshal_array(buf, offset, Tail(sig))
           [] sig[1] \in {"(", "{"} -> demarshal_struct(buf, offset, Tail(sig))
           [] sig[1] = "v" -> demarshal_variant(buf, offset, Tail(sig))
           [] OTHER -> Demarshalled("BadSignature", NoValue, buf, offset,
                                    Tail(sig))

----------------------------------------------------------------------------
(* SpecDispatch: a Message handed to a chain of MessageDispatchers that     *)
(* ends in NoMatchHandler.  The handlers are the caller's closures: the     *)
(* model chooses what they return and takes them to send nothing themselves.*)

\* MessageDispatchers in a chain
MaxDispatchers == 2

MESSAGE_TYPE_METHOD_RETURN == 2
MESSAGE_TYPE_ERROR == 3

(* Message.  A header field is <<>> when the message has none and <<v>>   *)
(* when it has one of value v; the Signature is a sequence of type codes; *)
(* the body is its bytes; text holds the string arguments, whose encoding *)
(* the model does not spell out.                                          *)

NewMessage(mtype) ==
    [mtype |-> mtype, flags |-> 0, serial |-> 0, path |-> <<>>,
     interface |-> <<>>, member |-> <<>>, error_name |-> <<>>,
     reply_serial |-> <<>>, signature |-> <<>>, body |-> <<>>, text |-> <<>>]

NoMessage == NewMessage(0)

create_method_call(dest, path, iface, method) ==
    [NewMessage(MESSAGE_TYPE_METHOD_CALL) EXCEPT
        !.path = <<path>>, !.interface = <<iface>>, !.member = <<method>>]

create_method_return(reply_serial) ==
    [NewMessage(MESSAGE_TYPE_METHOD_RETURN) EXCEPT
        !.reply_serial = <<reply_serial>>]

create_error(error_name, reply_serial) ==
    [NewMessage(MESSAGE_TYPE_ERROR) EXCEPT
        !.reply_serial = <<reply_serial>>, !.error_name = <<error_name>>]

create_signal(path, interface, member) ==
    [NewMessage(MESSAGE_TYPE_SIGNAL) EXCEPT
        !.path = <<path>>, !.interface = <<interface>>, !.member = <<member>>]

\* the Signature header after one more argument of type code typ
SignatureWith(msg, typ) ==
    IF msg.signature = <<>> THEN << <<typ>> >>
    ELSE << Append(msg.signature[1], typ) >>

\* add_arg of an Int32
add_arg(msg, arg) ==
    [msg EXCEPT !.signature = SignatureWith(msg, "i"),
                !.body = marshal_int(arg, 4, msg.body)]

\* add_arg of a string
add_arg_str(msg, arg) ==
    [msg EXCEPT !.signature = SignatureWith(msg, "s"),
                !.text = Append(msg.text, arg)]

RECURSIVE add_args(_, _)
add_args(msg, r) ==
    IF r = <<>> THEN msg ELSE add_args(add_arg(msg, Head(r)), Tail(r))

\* Message::get_body once demarshal has returned d: the Int32s of the
\* Struct, and what demarshal has left of self.body
body_objects(d) ==
    [res |-> d.res, some |-> d.res = "Ok",
     objects |-> [i \in 1..Len(d.val.objects) |-> d.val.objects[i].n],
     body |-> d.buf]

\* Message::get_body of a body of Int32s
Message_get_body(msg) ==
    IF Len(msg.body) = 0
    THEN [res |-> "Ok", some |-> FALSE, objects |-> <<>>, body |-> msg.body]
    ELSE IF msg.signature = <<>>
    THEN [res |-> "CorruptedMessage", some |-> FALSE, objects |-> <<>>,
          body |-> msg.body]
    ELSE body_objects(demarshal(msg.body, 0,
                                (<<"(">> \o msg.signature[1]) \o <<")">>))

(* message_types: the decoding of a Message into one of the four kinds *)

\* msg.decode_header_field(name): the value of the header field, if the
\* message has it
decode_header_field(msg, name) ==
    CASE name = "PATH"         -> msg.path
      [] name = "INTERFACE"    -> msg.interface
      [] name = "MEMBER"       -> msg.member
      [] name = "ERROR_NAME"   -> msg.error_name
      [] name = "REPLY_SERIAL" -> msg.reply_serial
      [] OTHER                 -> msg.signature

\* what the four constructors return: res is "Ok" or the MessageDecodeError;
\* msg is the Message as the constructor leaves it
Decoded(res, kind, path, interface, member, b, msg) ==
    [res |-> res, kind |-> kind, path |-> path, interface |-> interface,
     member |-> member, body |-> [some |-> b.some, objects |-> b.objects],
     msg |-> [msg EXCEPT !.body = b.body]]

NoBody(msg) == [some |-> FALSE, objects |-> <<>>, body |-> msg.body]

DecodeFailed(err, msg) == Decoded(err, "none", "", "", "", NoBody(msg), msg)

MethodCall_new(msg) ==
    LET path      == decode_header_field(msg, "PATH")
        interface == decode_header_field(msg, "INTERFACE")
        member    == decode_header_field(msg, "MEMBER")
        b         == Message_get_body(msg) IN
    CASE path = <<>>   -> DecodeFailed("BadPath", msg)
      [] member = <<>> -> DecodeFailed("BadMember", msg)
      [] b.res # "Ok"  -> Decoded("BadBody", "none", "", "", "", b, msg)
      [] OTHER -> Decoded("Ok", "Method", path[1],
                          IF interface = <<>> THEN "" ELSE interface[1],
                          member[1], b, msg)

MethodReturn_new(msg) ==
    LET b == Message_get_body(msg) IN
    CASE decode_header_field(msg, "REPLY_SERIAL") = <<>> ->
            DecodeFailed("BadReplySerial", msg)
      [] b.res # "Ok" -> Decoded("BadBody", "none", "", "", "", b, msg)
      [] OTHER -> Decoded("Ok", "MethodReturn", "", "", "", b, msg)

Signal_new(msg) ==
    LET path      == decode_header_field(msg, "PATH")
        interface == decode_header_field(msg, "INTERFACE")
        member    == decode_header_field(msg, "MEMBER")
        b         == Message_get_body(msg) IN
    CASE path = <<>>      -> DecodeFailed("BadPath", msg)
      [] interface = <<>> -> DecodeFailed("BadInterface", msg)
      [] member = <<>>    -> DecodeFailed("BadMember", msg)
      [] b.res # "Ok"     -> Decoded("BadMember", "none", "", "", "", b, msg)
      [] OTHER -> Decoded("Ok", "Signal", path[1], interface[1], member[1],
                          b, msg)

Error_new(msg) ==
    LET b == Message_get_body(msg) IN
    CASE decode_header_field(msg, "ERROR_NAME") = <<>> ->
            DecodeFailed("BadErrorName", msg)
      [] decode_header_field(msg, "REPLY_SERIAL") = <<>> ->
            DecodeFailed("BadReplySerial", msg)
      [] b.res # "Ok" -> Decoded("BadBody", "none", "", "", "", b, msg)
      [] OTHER -> Decoded("Ok", "Error", "", "", "", b, msg)

decode_message(msg) ==
    CASE msg.mtype = MESSAGE_TYPE_METHOD_CALL   -> MethodCall_new(msg)
      [] msg.mtype = MESSAGE_TYPE_METHOD_RETURN -> MethodReturn_new(msg)
      [] msg.mtype = MESSAGE_TYPE_SIGNAL        -> Signal_new(msg)
      [] msg.mtype = MESSAGE_TYPE_ERROR         -> Error_new(msg)
      [] OTHER -> DecodeFailed("BadMessageType", msg)

(* dispatch: MessageDispatcher, NoMatchHandler and HandlerChain *)

\* DispatchResult: Ok(()) or Err(DispatchError)
DispatchOk == [ok |-> TRUE, err |-> "", detail |-> ""]

DispatchErr(err, detail) == [ok |-> FALSE, err |-> err, detail |-> detail]

\* what a handler closure can return: a MethodRetVal or a DispatchError
\* (a signal handler's Ok carries nothing)
HandlerReturns ==
    { [ok |-> TRUE, val |-> v[1], r |-> v[2], err |-> "", detail |-> ""] :
        v \in { <<"NoReply", <<>>>>, <<"EmptyReply", <<>>>>,
                <<"Reply", <<10>>>>, <<"Reply", <<300, 10>>>> } }
    \cup
    { [ok |-> FALSE, val |-> "", r |-> <<>>, err |-> e[1], detail |-> e[2]] :
        e \in { <<"InvalidArguments", "">>,
                <<"OtherError", "handler.Error.Failed">>,
                <<"UnhandledMessage", "">>,
                <<"MessageDecodeError", "BadBody">> } }

\* what sender.send returns: Ok(serial) or Err(connection::Error)
SendOutcomes == {"Ok", "Disconnected"}

\* sender.send(&mut mbuf) of a MessageSender: the message goes to the
\* sender, which reports how the send went
sender_send(mbuf, w) == [msg |-> mbuf, res |-> w]

connection_err_string(e) ==
    IF e = "Disconnected" THEN "Connection send error Disconnected"
    ELSE "Connection send error IOError"

DBusMatch(path, interface, member) == <<path, interface, member>>

\* what a dispatch_* or handle_message did: its result, the sends, the
\* handler calls
Did(res, snt, inv) == [res |-> res, sent |-> snt, invoked |-> inv]

Invocation(kind, key, body, hret) ==
    [kind |-> kind, key |-> key, args |-> body, ret |-> hret]

\* dispatch_sig that looks the signal up among the method handlers
dispatch_sig_in_mth_handlers(d, sig, hret) ==
    LET s == DBusMatch(sig.path, sig.interface, sig.member) IN
    IF s \notin d.mth_handlers
    THEN Did(DispatchErr("UnhandledMessage", ""), <<>>, <<>>)
    ELSE Did(IF hret.ok THEN DispatchOk ELSE DispatchErr(hret.err, hret.detail),
             <<>>, <<Invocation("sig", s, sig.body, hret)>>)

dispatch_sig(d, sig, hret) ==
    LET s == DBusMatch(sig.path, sig.interface, sig.member) IN
    IF s \notin d.sig_handlers
    THEN Did(DispatchErr("UnhandledMessage", ""), <<>>, <<>>)
    ELSE Did(IF hret.ok THEN DispatchOk ELSE DispatchErr(hret.err, hret.detail),
             <<>>, <<Invocation("sig", s, sig.body, hret)>>)

\* dispatch_mth that replies whatever the flags and the handler say
dispatch_mth_always_replies(d, mth, reply_serial, reply_expected, hret, w) ==
    LET s   == DBusMatch(mth.path, mth.interface, mth.member)
        inv == <<Invocation("mth", s, mth.body, hret)>> IN
    IF s \notin d.mth_handlers
    THEN Did(DispatchErr("UnhandledMessage", ""), <<>>, <<>>)
    ELSE IF ~hret.ok
    THEN Did(DispatchErr(hret.err, hret.detail), <<>>, inv)
    ELSE Did(IF w = "Ok" THEN DispatchOk
             ELSE DispatchErr("OtherError", connection_err_string(w)),
             <<sender_send(add_args(create_method_return(reply_serial),
                                    hret.r), w)>>,
             inv)

\* dispatch_mth that puts the incoming message's own ReplySerial in the reply
dispatch_mth_zero_serial(d, mth, reply_serial, reply_expected, hret, w) ==
    LET s   == DBusMatch(mth.path, mth.interface, mth.member)
        inv == <<Invocation("mth", s, mth.body, hret)>> IN
    IF s \notin d.mth_handlers
    THEN Did(DispatchErr("UnhandledMessage", ""), <<>>, <<>>)
    ELSE IF ~hret.ok
    THEN Did(DispatchErr(hret.err, hret.detail), <<>>, inv)
    ELSE IF hret.val = "NoReply" \/ ~reply_expected
    THEN Did(DispatchOk, <<>>, inv)
    ELSE Did(IF w = "Ok" THEN DispatchOk
             ELSE DispatchErr("OtherError", connection_err_string(w)),
             <<sender_send(add_args(create_method_return(0), hret.r), w)>>,
             inv)

dispatch_mth(d, mth, reply_serial, reply_expected, hret, w) ==
    LET s   == DBusMatch(mth.path, mth.interface, mth.member)
        inv == <<Invocation("mth", s, mth.body, hret)>> IN
    IF s \notin d.mth_handlers
    THEN Did(DispatchErr("UnhandledMessage", ""), <<>>, <<>>)
    ELSE IF ~hret.ok
    THEN Did(DispatchErr(hret.err, hret.detail), <<>>, inv)
    ELSE IF hret.val = "NoReply" \/ ~reply_expected
    THEN Did(DispatchOk, <<>>, inv)
    ELSE Did(IF w = "Ok" THEN DispatchOk
             ELSE DispatchErr("OtherError", connection_err_string(w)),
             <<sender_send(add_args(create_method_return(reply_serial),
                                    IF hret.val = "Reply" THEN hret.r
                                    ELSE <<>>), w)>>,
             inv)

\* handle_message that takes a MethodReturn or an Error for handled
dispatch_reply_consumed(dec) == Did(DispatchOk, <<>>, <<>>)

\* the MethodReturn and Error arms of handle_message
dispatch_reply(dec) == Did(DispatchErr("UnhandledMessage", ""), <<>>, <<>>)

\* HandlerResult: Ok(Ok(())), Ok(Err(reason)) or Err(msg)
Handled == [kind |-> "Handled", msg |-> NoMessage, reason |-> ""]

Failed(reason) == [kind |-> "Failed", msg |-> NoMessage, reason |-> reason]

Unmatched(msg) == [kind |-> "Unmatched", msg |-> msg, reason |-> ""]

\* the error reply of handle_message and what it returns with it
ErrorReply(r, e, reason, w) ==
    Did(Failed(IF w = "Ok" THEN reason ELSE connection_err_string(w)),
        Append(r.sent, sender_send(e, w)), r.invoked)

\* handle_message, first half: dispatch on the type of the decoded message.
\* hret: what the handler returns if it is called; w1: how the send of the
\* reply goes
dispatch_by_type(d, dec, hret, w1) ==
    CASE dec.res # "Ok" ->
            Did(DispatchErr("MessageDecodeError", dec.res), <<>>, <<>>)
      [] dec.kind = "Signal" -> dispatch_sig(d, dec, hret)
      [] dec.kind = "Method" ->
            dispatch_mth(d, dec, dec.msg.serial, dec.msg.flags % 2 = 0,
                         hret, w1)
      [] OTHER -> dispatch_reply(dec)

\* handle_message, second half: the match on the DispatchResult r.  m: the
\* Message after decode_message; w2: how the send of the error goes
report_result(m, r, w2) ==
    CASE r.res.ok -> Did(Handled, r.sent, r.invoked)
      [] r.res.err = "MessageDecodeError" ->
            ErrorReply(r,
                add_arg_str(create_error(
                    "org.freedesktop.DBus.Error.InconsistentMessage", m.serial),
                    r.res.detail),
                r.res.detail, w2)
      [] r.res.err = "InvalidArguments" ->
            ErrorReply(r,
                create_error("org.freedesktop.DBus.Error.InvalidSignature",
                             m.serial),
                "Invalid arguments", w2)
      [] r.res.err = "OtherError" ->
            ErrorReply(r, create_error(r.res.detail, m.serial),
                       r.res.detail, w2)
      [] OTHER -> Did(Unmatched(m), r.sent, r.invoked)

handle_decoded(d, dec, hret, w1, w2) ==
    report_result(dec.msg, dispatch_by_type(d, dec, hret, w1), w2)

\* MessageDispatcher::handle_message
handle_message(d, msg, hret, w1, w2) ==
    handle_decoded(d, decode_message(msg), hret, w1, w2)

\* NoMatchHandler that leaves the ReplySerial of its error at 0
NoMatchHandler_no_reply_serial(msg, w) ==
    Did(IF w = "Ok" THEN Handled ELSE Failed(connection_err_string(w)),
        <<sender_send(create_error("org.freedesktop.DBus.Error.UnknownObject",
                                   0), w)>>,
        <<>>)

NoMatchHandler_handle_message(msg, w) ==
    Did(IF w = "Ok" THEN Handled ELSE Failed(connection_err_string(w)),
        <<sender_send(create_error("org.freedesktop.DBus.Error.UnknownObject",
                                   msg.serial), w)>>,
        <<>>)

\* chain that hands every result on to the next handler
chain_always(h, next) == next

\* HandlerChain::chain: self.or_else(|e| handler.handle_message(sender, e)),
\* next being what that call does
chain(h, next) ==
    IF h.kind = "Unmatched" THEN next ELSE Did(h, <<>>, <<>>)

\* history: who sent, who called
By(seq, n) == [i \in 1..Len(seq) |-> [by |-> n, e |-> seq[i]]]

cvars == <<serial, queue, phase, pc, csSerial, local, wire, assigned, nrecv,
           sockEof, delivered, lastRead, authLog, attempts, ret>>

\* the turn of the next MessageDispatcher of the chain
DispatcherTurn ==
    /\ phase = "dispatch"
    /\ chainPos < Len(dispatchers)
    /\ \E hret \in HandlerReturns, w1 \in SendOutcomes, w2 \in SendOutcomes :
         LET n == chainPos + 1
             r == chain(hres, handle_message(dispatchers[n], hres.msg, hret,
                                             w1, w2)) IN
         /\ hres' = r.res
         /\ sent' = sent \o By(r.sent, n)
         /\ invoked' = invoked \o By(r.invoked, n)
         /\ chainPos' = n
    /\ UNCHANGED <<cvars, rvars, dispatchers, orig, pvars>>

\* the turn of the NoMatchHandler that ends the chain
NoMatchTurn ==
    /\ phase = "dispatch"
    /\ chainPos = Len(dispatchers)
    /\ \E w \in SendOutcomes :
         LET r == chain(hres, NoMatchHandler_handle_message(hres.msg, w)) IN
         /\ hres' = r.res
         /\ sent' = sent \o By(r.sent, chainPos + 1)
         /\ invoked' = invoked \o By(r.invoked, chainPos + 1)
         /\ chainPos' = chainPos + 1
    /\ UNCHANGED <<cvars, rvars, dispatchers, orig, pvars>>

\* the keys handlers are registered under
Keys == { DBusMatch("path", "interface", "method"),
          DBusMatch("path", "interface", "other") }

\* a MessageDispatcher after its add_method and add_signal calls
Dispatchers ==
    [mth_handlers : {{}, {DBusMatch("path", "interface", "method")}},
     sig_handlers : {{}} \cup {{k} : k \in Keys}]

DispatcherChains ==
    UNION { [1..n -> Dispatchers] : n \in 1..MaxDispatchers }

\* the messages that come in: well-formed ones of the four types, and ones
\* decode_message refuses
InMsgs ==
    LET call == [create_method_call("dest", "path", "interface", "method")
                    EXCEPT !.serial = 7]
        sig  == [create_signal("path", "interface", "method")
                    EXCEPT !.serial = 7]
        mret == [create_method_return(3) EXCEPT !.serial = 7]
        err  == [create_error("peer.Error.Failed", 3) EXCEPT !.serial = 7]
    IN
    { call, add_arg(call, 10), add_args(call, <<10, 300>>),
      [call EXCEPT !.flags = 1], [add_arg(call, 10) EXCEPT !.flags = 1],
      [call EXCEPT !.interface = <<>>],
      sig, add_arg(sig, 300),
      [sig EXCEPT !.member = <<"other">>],
      mret, add_arg(mret, 10), err,
      [add_args(call, <<10, 300>>) EXCEPT !.signature = << <<"i">> >>] }
    \cup
    { [call EXCEPT !.mtype = 5],
      [call EXCEPT !.path = <<>>], [call EXCEPT !.member = <<>>],
      [sig EXCEPT !.interface = <<>>],
      [mret EXCEPT !.reply_serial = <<>>],
      [err EXCEPT !.error_name = <<>>],
      [add_arg(call, 10) EXCEPT !.body = <<10, 0>>],
      [add_arg(sig, 10) EXCEPT !.body = <<10, 0>>],
      [add_arg(call, 10) EXCEPT !.signature = <<>>] }

InitDispatch ==
    /\ serial = U32(2)
    /\ queue = <<>>
    /\ phase = "dispatch"
    /\ pc = "idle"
    /\ csSerial = U32(0)
    /\ local = <<>>
    /\ wire = <<>>
    /\ assigned = <<>>
    /\ nrecv = 0
    /\ sockEof = FALSE
    /\ delivered = <<>>
    /\ lastRead = NoRead
    /\ authLog = <<>>
    /\ attempts = <<>>
    /\ ret = NoRet
    /\ NoStream /\ NoPure
    /\ dispatchers \in DispatcherChains
    /\ orig \in InMsgs
    /\ hres = Unmatched(orig)
    /\ sent = <<>>
    /\ invoked = <<>>
    /\ chainPos = 0

NextDispatch == DispatcherTurn \/ NoMatchTurn

SpecDispatch == InitDispatch /\ [][NextDispatch]_vars

----------------------------------------------------------------------------
(* Claims about the dispatchers, checked under SpecDispatch *)

SentBy(n) == SelectSeq(sent, LAMBDA x : x.by = n)

InvokedBy(n) == SelectSeq(invoked, LAMBDA x : x.by = n)

KeyOf(dec) == DBusMatch(dec.path, dec.interface, dec.member)

\* dispatcher d has a handler of the message's kind under the message's key
HasHandlerFor(d, dec) ==
    /\ dec.res = "Ok"
    /\ \/ dec.kind = "Signal" /\ KeyOf(dec) \in d.sig_handlers
       \/ dec.kind = "Method" /\ KeyOf(dec) \in d.mth_handlers

HasHandler(d, msg) == HasHandlerFor(d, decode_message(msg))

\* the message has come to dispatcher n: it decodes, and no dispatcher before
\* n has a handler for it
Reaches(n) ==
    /\ decode_message(orig).res = "Ok"
    /\ \A k \in 1..(n - 1) : ~HasHandler(dispatchers[k], orig)

IsErrorReply(m, name, reply_serial) ==
    /\ m.mtype = MESSAGE_TYPE_ERROR
    /\ m.error_name = <<name>>
    /\ m.reply_serial = <<reply_serial>>

\* C14: a message that no MessageDispatcher of the chain has a handler for,
\* once through the chain and NoMatchHandler, has had exactly one message
\* written to the sender, by NoMatchHandler: the Error
\* org.freedesktop.DBus.Error.UnknownObject with the incoming serial for
\* ReplySerial.  The dispatchers wrote nothing and called nothing.
C14_ChainEndsInUnknownObject ==
    (phase = "dispatch" /\ Reaches(Len(dispatchers) + 1)) =>
       /\ invoked = <<>>
       /\ chainPos <= Len(dispatchers) => sent = <<>> /\ hres.kind = "Unmatched"
       /\ chainPos = Len(dispatchers) + 1 =>
             /\ Len(sent) = 1
             /\ sent[1].by = Len(dispatchers) + 1
             /\ IsErrorReply(sent[1].e.msg,
                    "org.freedesktop.DBus.Error.UnknownObject", orig.serial)

\* the test test_no_match_handler: a signal, two dispatchers, a sender whose
\* send fails
C14_Witness ==
    /\ phase = "dispatch"
    /\ Len(dispatchers) = 2 /\ chainPos = 3
    /\ orig.mtype = MESSAGE_TYPE_SIGNAL
    /\ Reaches(3)
    /\ Len(sent) = 1 /\ sent[1].e.res = "Disconnected"
    /\ hres = Failed("Connection send error Disconnected")

\* the values a MethodRetVal asks the reply to carry
ReplyValues(hret) == IF hret.val = "Reply" THEN hret.r ELSE <<>>

\* m is the MethodReturn to serial reply_serial whose body holds exactly the
\* values r, in order
IsMethodReturnOf(m, reply_serial, r) ==
    /\ m.mtype = MESSAGE_TYPE_METHOD_RETURN
    /\ m.reply_serial = <<reply_serial>>
    /\ Message_get_body(m).res = "Ok"
    /\ Message_get_body(m).objects = r
    /\ Message_get_body(m).body = <<>>
    /\ Len(m.body) = 4 * Len(r)

C16_NoReplyIsSilent ==
    \A n \in 1..Len(dispatchers) :
       (phase = "dispatch" /\ chainPos >= n) =>
          /\ Len(InvokedBy(n)) <= 1
          /\ (/\ orig.mtype = MESSAGE_TYPE_METHOD_CALL
              /\ Reaches(n) /\ HasHandler(dispatchers[n], orig))
             => Len(InvokedBy(n)) = 1
          /\ (/\ InvokedBy(n) # <<>>
              /\ InvokedBy(n)[1].e.kind = "mth"
              /\ InvokedBy(n)[1].e.ret.ok
              /\ (InvokedBy(n)[1].e.ret.val = "NoReply" \/ orig.flags % 2 = 1))
             => SentBy(n) = <<>> /\ hres = Handled

C16_Witness ==
    /\ phase = "dispatch"
    /\ orig.flags % 2 = 1
    /\ Len(invoked) = 1
    /\ invoked[1].e.ret.val = "Reply"
    /\ invoked[1].by = 2
    /\ sent = <<>>
    /\ hres = Handled
    /\ chainPos = Len(dispatchers) + 1

C16_WitnessNoReply ==
    /\ phase = "dispatch"
    /\ orig.flags % 2 = 0
    /\ Len(invoked) = 1
    /\ invoked[1].e.ret.val = "NoReply"
    /\ sent = <<>>
    /\ hres = Handled

\* one turn of dispatcher n on the message the chain hands it
C17_Turn ==
    (phase = "dispatch" /\ chainPos < Len(dispatchers)
       /\ chainPos' = chainPos + 1 /\ hres.kind = "Unmatched"
       /\ decode_message(hres.msg).res = "Ok")
    => IF HasHandler(dispatchers[chainPos'], hres.msg)
       THEN /\ Len(invoked') = Len(invoked) + 1
            /\ invoked'[Len(invoked')].by = chainPos'
            /\ invoked'[Len(invoked')].e.kind =
                  (IF hres.msg.mtype = MESSAGE_TYPE_SIGNAL THEN "sig" ELSE "mth")
            /\ invoked'[Len(invoked')].e.key = KeyOf(decode_message(hres.msg))
       ELSE /\ invoked' = invoked
            /\ sent' = sent
            /\ hres'.kind = "Unmatched"

\* C17: a signal is looked up among the signal handlers only and a method
\* call among the method handlers only, under the whole (path, interface,
\* member) key: a dispatcher without a handler of the message's kind under
\* that key calls no handler, sends nothing and returns the message as
\* unmatched, and the dispatcher that holds one is the one that calls it.
C17_MatchedByKindAndKey == [][C17_Turn]_vars

\* a signal passes a dispatcher holding a method handler under its key and
\* is run by the next one, which holds the signal handler
C17_Witness ==
    /\ phase = "dispatch"
    /\ Len(dispatchers) = 2
    /\ orig.mtype = MESSAGE_TYPE_SIGNAL
    /\ KeyOf(decode_message(orig)) \in dispatchers[1].mth_handlers
    /\ KeyOf(decode_message(orig)) \notin dispatchers[1].sig_handlers
    /\ dispatchers[1].sig_handlers # {}
    /\ Len(invoked) = 1 /\ invoked[1].by = 2 /\ invoked[1].e.kind = "sig"
    /\ sent = <<>>

\* C18: a message that handle_message returns as unmatched is the message
\* that was passed in, equal in every field, the body bytes included.
C18_UnmatchedIsOriginal ==
    (phase = "dispatch" /\ hres.kind = "Unmatched") => hres.msg = orig

\* C19: a well-formed MethodReturn or Error is never dispatched: through all
\* the dispatchers no handler is called, nothing is sent and the message
\* stays unmatched.
C19_RepliesNotDispatched ==
    (/\ phase = "dispatch"
     /\ orig.mtype \in {MESSAGE_TYPE_METHOD_RETURN, MESSAGE_TYPE_ERROR}
     /\ decode_message(orig).res = "Ok")
    => /\ invoked = <<>>
       /\ chainPos <= Len(dispatchers) => sent = <<>> /\ hres.kind = "Unmatched"

C19_Witness ==
    /\ phase = "dispatch"
    /\ orig.mtype = MESSAGE_TYPE_METHOD_RETURN
    /\ orig.body # <<>>
    /\ decode_message(orig).res = "Ok"
    /\ chainPos = 2 /\ Len(dispatchers) = 2
    /\ hres.kind = "Unmatched"

\* why a message does not decode, in the words of MessageDecodeError: its
\* type is none of the four, a header field its type requires is missing, or
\* its body does not decode
FailureReason(msg) ==
    CASE msg.mtype = MESSAGE_TYPE_METHOD_CALL ->
            (CASE msg.path = <<>>   -> "BadPath"
               [] msg.member = <<>> -> "BadMember"
               [] OTHER             -> "BadBody")
      [] msg.mtype = MESSAGE_TYPE_METHOD_RETURN ->
            (CASE msg.reply_serial = <<>> -> "BadReplySerial"
               [] OTHER                   -> "BadBody")
      [] msg.mtype = MESSAGE_TYPE_SIGNAL ->
            (CASE msg.path = <<>>      -> "BadPath"
               [] msg.interface = <<>> -> "BadInterface"
               [] msg.member = <<>>    -> "BadMember"
               [] OTHER                -> "BadBody")
      [] msg.mtype = MESSAGE_TYPE_ERROR ->
            (CASE msg.error_name = <<>>   -> "BadErrorName"
               [] msg.reply_serial = <<>> -> "BadReplySerial"
               [] OTHER                   -> "BadBody")
      [] OTHER -> "BadMessageType"

\* C20: when the incoming message does not decode, handle_message calls no
\* handler, sends exactly one message, the Error
\* org.freedesktop.DBus.Error.InconsistentMessage with the incoming serial
\* for ReplySerial, and returns the locally-failed result that carries the
\* reason of the failure, not the message as unmatched (when the send of the
\* error fails, the result carries that failure).
C20_DecodeFailureReported ==
    (phase = "dispatch" /\ chainPos >= 1 /\ decode_message(orig).res # "Ok")
    => /\ invoked = <<>>
       /\ Len(sent) = 1
       /\ sent[1].by = 1
       /\ IsErrorReply(sent[1].e.msg,
              "org.freedesktop.DBus.Error.InconsistentMessage", orig.serial)
       /\ hres.kind = "Failed"
       /\ hres.reason = (IF sent[1].e.res = "Ok" THEN FailureReason(orig)
                         ELSE connection_err_string(sent[1].e.res))

\* one turn of the chain: a MessageDispatcher or the NoMatchHandler
C21_Turn ==
    (phase = "dispatch" /\ chainPos' = chainPos + 1)
    => IF hres.kind = "Unmatched"
       THEN /\ HasHandler(dispatchers[IF chainPos' <= Len(dispatchers)
                                      THEN chainPos' ELSE 1], hres.msg)
               /\ chainPos' <= Len(dispatchers)
               => /\ Len(invoked') = Len(invoked) + 1
                  /\ invoked'[Len(invoked')].by = chainPos'
            /\ chainPos' = Len(dispatchers) + 1
               => /\ Len(sent') = Len(sent) + 1
                  /\ sent'[Len(sent')].by = chainPos'
       ELSE /\ hres' = hres
            /\ sent' = sent
            /\ invoked' = invoked

\* C21: chain calls the next handler exactly when the result so far is
\* unmatched: then the next handler gets the unmatched message (a dispatcher
\* holding its handler calls it, the NoMatchHandler sends its error); a
\* handled or locally-failed result goes through unchanged, and the later
\* handler calls nothing and sends nothing.
C21_ChainCallsNextIffUnmatched == [][C21_Turn]_vars

\* the first dispatcher's handler ran and the result was handled or failed;
\* the second dispatcher, which holds a handler under the same key, and the
\* NoMatchHandler had their turns and neither called nor sent anything
C21_Witness ==
    /\ phase = "dispatch"
    /\ Len(dispatchers) = 2 /\ chainPos = 3
    /\ HasHandler(dispatchers[1], orig) /\ HasHandler(dispatchers[2], orig)
    /\ hres.kind = "Handled"
    /\ Len(invoked) = 1 /\ invoked[1].by = 1
    /\ \A i \in 1..Len(sent) : sent[i].by = 1

C21_WitnessFailed ==
    /\ phase = "dispatch"
    /\ Len(dispatchers) = 2 /\ chainPos = 3
    /\ HasHandler(dispatchers[1], orig) /\ HasHandler(dispatchers[2], orig)
    /\ hres.kind = "Failed"
    /\ Len(invoked) = 1 /\ invoked[1].by = 1
    /\ \A i \in 1..Len(sent) : sent[i].by = 1


----------------------------------------------------------------------------
(* SpecCodec: a Value is marshalled into an empty buffer and the buffer is  *)
(* demarshalled from offset 0 with the Value's signature; or a buffer that  *)
(* holds the declared length of an array arrives and is demarshalled.       *)

\* items of the arrays that are marshalled
MaxItems == 2

U32Items(k) == [i \in 1..k |-> Basic("Uint32", i)]
I64Items(k) == [i \in 1..k |-> Basic("Int64", i - 2)]
ByteItems(k) == [i \in 1..k |-> Basic("Byte", 200 + i)]
PairItems(k) ==
    [i \in 1..k |-> Struct(<<Basic("Byte", i), Basic("Uint32", 256 + i)>>,
                           <<"(", "y", "u", ")">>)]
EntryItems(k) ==
    [i \in 1..k |-> DictEntry(Str("String", <<96 + i>>), Basic("Int32", i))]

\* the Values marshalled, each with its signature
Primitives ==
    { <<Basic("Byte", 7), <<"y">> >>,
      <<Basic("Boolean", 0), <<"b">> >>,
      <<Basic("Boolean", 1), <<"b">> >>,
      <<Basic("Int16", -2), <<"n">> >>,
      <<Basic("Uint16", 513), <<"q">> >>,
      <<Basic("Int32", -1), <<"i">> >>,
      <<Basic("Int32", 300), <<"i">> >>,
      <<Basic("Uint32", 16), <<"u">> >>,
      <<Basic("Int64", -3), <<"x">> >>,
      <<Basic("Uint64", 70000), <<"t">> >>,
      <<Str("String", <<>>), <<"s">> >>,
      <<Str("String", <<115, 119>>), <<"s">> >>,
      <<Str("String", <<195, 169>>), <<"s">> >>,
      <<Str("ObjectPath", <<47, 112>>), <<"o">> >>,
      <<SignatureValue(<<>>), <<"g">> >>,
      <<SignatureValue(<<"a", "(", "y", "v", ")">>), <<"g">> >> }

Structs ==
    { <<Struct(<<Str("String", <<115>>), Str("String", <<119>>)>>,
               <<"(", "s", "s", ")">>), <<"(", "s", "s", ")">> >>,
      <<Struct(<<Basic("Byte", 1),
                 Struct(<<Basic("Int32", -5)>>, <<"(", "i", ")">>)>>,
               <<"(", "y", "(", "i", ")", ")">>),
        <<"(", "y", "(", "i", ")", ")">> >>,
      <<Struct(<<Array(U32Items(1), <<"a", "u">>), Basic("Byte", 9)>>,
               <<"(", "a", "u", "y", ")">>),
        <<"(", "a", "u", "y", ")">> >>,
      <<Struct(<<Array(<<>>, <<"a", "u">>), Basic("Byte", 9)>>,
               <<"(", "a", "u", "y", ")">>),
        <<"(", "a", "u", "y", ")">> >> }

Arrays ==
    UNION { { <<Array(U32Items(k), <<"a", "u">>), <<"a", "u">> >>,
              <<Array(ByteItems(k), <<"a", "y">>), <<"a", "y">> >>,
              <<Array(I64Items(k), <<"a", "x">>), <<"a", "x">> >>,
              <<Array(PairItems(k), <<"a", "(", "y", "u", ")">>),
                <<"a", "(", "y", "u", ")">> >>,
              <<Array([i \in 1..k |-> Array(U32Items(i), <<"a", "u">>)],
                      <<"a", "a", "u">>), <<"a", "a", "u">> >>,
              <<Dictionary(EntryItems(k), <<"a", "{", "s", "i", "}">>),
                <<"a", "{", "s", "i", "}">> >> } : k \in 0..MaxItems }

Variants ==
    { <<Variant(Basic("Uint32", 42), <<"u">>), <<"v">> >>,
      <<Variant(Str("String", <<115>>), <<"s">>), <<"v">> >>,
      <<Variant(Basic("Int64", 4), <<"x">>), <<"v">> >>,
      <<Variant(Array(U32Items(1), <<"a", "u">>), <<"a", "u">>), <<"v">> >> }

CodecInputs == Primitives \cup Structs \cup Arrays \cup Variants

\* the four bytes of a declared array length, around 1 << 26, and what may
\* follow them
DeclaredLengths ==
    { <<0, 0, 0, 0>>, <<4, 0, 0, 0>>, <<8, 0, 0, 0>>, <<255, 255, 255, 3>>,
      <<0, 0, 0, 4>>, <<1, 0, 0, 4>>, <<0, 0, 0, 5>>, <<255, 255, 255, 127>> }

ArrayTails ==
    { <<>>, <<1, 0, 0, 0>>, <<0, 0, 0, 0, 2, 0, 0, 0, 0, 0, 0, 0>> }

ArraySignatures ==
    { <<"a", "u">>, <<"a", "y">>, <<"a", "x">>, <<"a", "(", "y", "u", ")">> }

InitCodec ==
    /\ serial = U32(2)
    /\ queue = <<>>
    /\ phase = "codec"
    /\ pc = "idle"
    /\ csSerial = U32(0)
    /\ local = <<>>
    /\ wire = <<>>
    /\ assigned = <<>>
    /\ nrecv = 0
    /\ sockEof = FALSE
    /\ delivered = <<>>
    /\ lastRead = NoRead
    /\ authLog = <<>>
    /\ attempts = <<>>
    /\ ret = NoRet
    /\ NoStream /\ NoDispatch /\ NoMessages /\ NoAddress
    /\ \/ \E x \in CodecInputs : cval = x[1] /\ csig = x[2]
       \/ cval = NoValue /\ csig \in ArraySignatures
    /\ cbuf = <<>>
    /\ cret = [res |-> "none"]
    /\ coff = 0

\* x.dbus_encode(&mut buf) into the empty buffer
Encode ==
    /\ phase = "codec" /\ cval # NoValue
    /\ cbuf = <<>> /\ cret.res = "none"
    /\ cbuf' = dbus_encode(cval, <<>>)
    /\ UNCHANGED <<cvars, rvars, dvars, mvars, avars, cval, csig, cret, coff>>

\* bytes that hold an array arrive from elsewhere
Arrive ==
    /\ phase = "codec" /\ cval = NoValue
    /\ cbuf = <<>> /\ cret.res = "none"
    /\ \E l \in DeclaredLengths, t \in ArrayTails : cbuf' = l \o t
    /\ UNCHANGED <<cvars, rvars, dvars, mvars, avars, cval, csig, cret, coff>>

\* demarshal(&mut buf, &mut offset, &mut sig) from offset 0
Demarshal ==
    /\ phase = "codec"
    /\ cbuf # <<>> /\ cret.res = "none"
    /\ cret' = demarshal(cbuf, 0, csig)
    /\ UNCHANGED <<cvars, rvars, dvars, mvars, avars, cval, cbuf, csig, coff>>

NextCodec == Encode \/ Arrive \/ Demarshal

SpecCodec == InitCodec /\ [][NextCodec]_vars

\* C22: every Value marshalled into an empty buffer and demarshalled with
\* its signature from offset 0 comes back as the same Value, with the whole
\* buffer and the whole signature consumed.
C22_RoundTrip ==
    (phase = "codec" /\ cval # NoValue /\ cret.res # "none")
    => /\ cret.res = "Ok"
       /\ cret.val = cval
       /\ cret.buf = <<>>
       /\ cret.sig = <<>>

\* C23: an array whose declared length exceeds 1 << 26 is rejected with
\* ElementTooBig before any of its elements is decoded (only the four bytes
\* of the length are taken off the buffer), and a declared length of
\* exactly 1 << 26 is not rejected with ElementTooBig.
C23_ElementTooBig ==
    (phase = "codec" /\ cval = NoValue /\ cret.res # "none")
    => /\ le_value(SubSeq(cbuf, 1, 4)) > ArrayLenLimit
          => /\ cret.res = "ElementTooBig"
             /\ cret.buf = SubSeq(cbuf, 5, Len(cbuf))
             /\ cret.offset = 4
       /\ le_value(SubSeq(cbuf, 1, 4)) <= ArrayLenLimit
          => cret.res # "ElementTooBig"

C23_Witness ==
    /\ phase = "codec" /\ cval = NoValue
    /\ cbuf = <<1, 0, 0, 4, 1, 0, 0, 0>>
    /\ cret.res = "ElementTooBig"

C23_WitnessAtLimit ==
    /\ phase = "codec" /\ cval = NoValue
    /\ cbuf = <<0, 0, 0, 4, 1, 0, 0, 0>>
    /\ cret.res = "MessageTooShort"

----------------------------------------------------------------------------
(* message.rs down to the header fields.  A Message is the record of the   *)
(* struct's fields: headers the sequence of its HeaderFields, body its     *)
(* bytes.  A HeaderField marshals as the struct (yv) of its code and its   *)
(* Variant, and that is how it is kept.                                    *)

HEADER_FIELD_PATH == 1
HEADER_FIELD_INTERFACE == 2
HEADER_FIELD_MEMBER == 3
HEADER_FIELD_ERROR_NAME == 4
HEADER_FIELD_REPLY_SERIAL == 5
HEADER_FIELD_DESTINATION == 6
HEADER_FIELD_SIGNATURE == 8

HeaderField(code, variant) ==
    Struct(<<Basic("Byte", code), variant>>, <<"(", "y", "v", ")">>)

\* Default::default() of Message
Message_default ==
    [big_endian |-> FALSE, message_type |-> 0, flags |-> 0, version |-> 0,
     serial |-> 0, headers |-> <<>>, body |-> <<>>]

\* the Message literal of the four factories
Message_new(message_type) ==
    [Message_default EXCEPT !.message_type = message_type, !.version = 1]

Message_add_header(m, name, val) ==
    [m EXCEPT !.headers = Append(@, HeaderField(name, val))]

Message_add_destination_header(m, destination) ==
    Message_add_header(m, HEADER_FIELD_DESTINATION,
                       Variant(Str("String", destination), <<"s">>))

Message_add_interface_header(m, interface) ==
    Message_add_header(m, HEADER_FIELD_INTERFACE,
                       Variant(Str("String", interface), <<"s">>))

Message_add_member_header(m, member) ==
    Message_add_header(m, HEADER_FIELD_MEMBER,
                       Variant(Str("String", member), <<"s">>))

Message_add_path_header(m, path) ==
    Message_add_header(m, HEADER_FIELD_PATH,
                       Variant(Str("ObjectPath", path), <<"o">>))

Message_add_error_header(m, error_name) ==
    Message_add_header(m, HEADER_FIELD_ERROR_NAME,
                       Variant(Str("String", error_name), <<"s">>))

Message_add_reply_header(m, reply_serial) ==
    Message_add_header(m, HEADER_FIELD_REPLY_SERIAL,
                       Variant(Basic("Uint32", reply_serial), <<"u">>))

Message_create_method_call(dest, path, iface, method) ==
    Message_add_member_header(
        Message_add_interface_header(
            Message_add_path_header(
                Message_add_destination_header(
                    Message_new(MESSAGE_TYPE_METHOD_CALL), dest),
                path),
            iface),
        method)

Message_create_method_return(reply_serial) ==
    Message_add_reply_header(Message_new(MESSAGE_TYPE_METHOD_RETURN),
                             reply_serial)

Message_create_error(error_name, reply_serial) ==
    Message_add_error_header(
        Message_add_reply_header(Message_new(MESSAGE_TYPE_ERROR),
                                 reply_serial),
        error_name)

Message_create_signal(path, interface, member) ==
    Message_add_member_header(
        Message_add_interface_header(
            Message_add_path_header(Message_new(MESSAGE_TYPE_SIGNAL), path),
            interface),
        member)

\* get_header: the index of the first header of that code, 0 for None
Message_get_header(m, name) ==
    IF \E i \in 1..Len(m.headers) : m.headers[i].objects[1].n = name
    THEN CHOOSE i \in 1..Len(m.headers) :
            /\ m.headers[i].objects[1].n = name
            /\ \A j \in 1..(i - 1) : m.headers[j].objects[1].n # name
    ELSE 0

\* the object of the Variant of header idx
header_object(m, idx) == m.headers[idx].objects[2].objects[1]

\* get_signature: <<>> for None, <<sig>> for Some(sig)
Message_get_signature(m) ==
    LET idx == Message_get_header(m, HEADER_FIELD_SIGNATURE) IN
    IF idx = 0 THEN <<>>
    ELSE IF header_object(m, idx).kind # "Signature" THEN <<>>
    ELSE <<header_object(m, idx).sig>>

\* add_arg on a message that has the Signature header at idx
add_arg_at(m, idx, arg) ==
    IF header_object(m, idx).kind # "Signature" THEN [res |-> "panic", msg |-> m]
    ELSE IF "!" \in {get_type(arg)[i] : i \in 1..Len(get_type(arg))}
    THEN [res |-> "panic", msg |-> m]
    ELSE [res |-> "Ok",
          msg |-> [m EXCEPT
                     !.headers[idx].objects[2].objects[1].sig =
                         @ \o get_type(arg),
                     !.body = dbus_encode(arg, @)]]

Message_add_arg(m, arg) ==
    IF Message_get_header(m, HEADER_FIELD_SIGNATURE) = 0
    THEN add_arg_at(Message_add_header(m, HEADER_FIELD_SIGNATURE,
                                       Variant(SignatureValue(<<>>), <<"g">>)),
                    Len(m.headers) + 1, arg)
    ELSE add_arg_at(m, Message_get_header(m, HEADER_FIELD_SIGNATURE), arg)

\* what get_body returns: res is "Ok", the DemarshalError or "panic"; some
\* tells Some from None
\* left is what is left of self.body
Body(res, some, objects, left) ==
    [res |-> res, some |-> some, objects |-> objects, left |-> left]

\* get_body once demarshal has returned d
body_of(d) ==
    IF d.res # "Ok" THEN Body(d.res, FALSE, <<>>, d.buf)
    ELSE IF d.val.kind # "Struct" THEN Body("panic", FALSE, <<>>, d.buf)
    ELSE Body("Ok", TRUE, d.val.objects, d.buf)

\* get_body that returns None for a message without Signature header
get_body_none_without_signature(m) ==
    IF Len(m.body) = 0 \/ Message_get_signature(m) = <<>>
    THEN Body("Ok", FALSE, <<>>, m.body)
    ELSE body_of(demarshal(m.body, 0,
                           (<<"(">> \o Message_get_signature(m)[1])
                           \o <<")">>))

\* Message::get_body
Message_get_body_values(m) ==
    IF Len(m.body) = 0 THEN Body("Ok", FALSE, <<>>, m.body)
    ELSE IF Message_get_signature(m) = <<>>
    THEN Body("CorruptedMessage", FALSE, <<>>, m.body)
    ELSE body_of(demarshal(m.body, 0,
                           (<<"(">> \o Message_get_signature(m)[1])
                           \o <<")">>))

\* Marshal for Message without the padding after the header fields
Message_dbus_encode_unpadded(m, buf) ==
    dbus_encode(Vec(m.headers),
        marshal_int(m.serial, 4,
            marshal_int(Len(m.body), 4,
                buf \o <<IF m.big_endian THEN 66 ELSE 108,
                         m.message_type, m.flags, m.version>>)))

\* Marshal for Message
Message_dbus_encode(m, buf) ==
    pad_to_multiple(
        dbus_encode(Vec(m.headers),
            marshal_int(m.serial, 4,
                marshal_int(Len(m.body), 4,
                    buf \o <<IF m.big_endian THEN 66 ELSE 108,
                             m.message_type, m.flags, m.version>>))),
        8)

\* sock_send: the bytes of the two write_all
sock_send_bytes(mbuf) == Message_dbus_encode(mbuf, <<>>) \o mbuf.body

(* sock_read_msg over the bytes of the stream.  What it returns: res, the *)
(* Message, and rest, the bytes of the stream it has not read.            *)

MsgRead(res, msg, rest) == [res |-> res, msg |-> msg, rest |-> rest]

\* the bytes of the stream after the first n
After(stream, n) == SubSeq(stream, n + 1, Len(stream))

\* read_exactly(sock, &mut msg.body, body_len)
read_body(msg, body_len, stream) ==
    IF body_len = 0 THEN MsgRead("Ok", msg, stream)
    ELSE IF read_exactly(Len(stream), body_len).res # "Ok"
    THEN MsgRead("Disconnected", Message_default, <<>>)
    ELSE MsgRead("Ok", [msg EXCEPT !.body = SubSeq(stream, 1, body_len)],
                 After(stream, body_len))

\* sock_read_msg that reads no padding
read_padding_skipped(msg, body_len, offset, stream) ==
    read_body(msg, body_len, stream)

\* the padding after the header fields, offset being where demarshal ended
read_padding(msg, body_len, offset, stream) ==
    IF trailing_pad(offset) % 8 = 0 THEN read_body(msg, body_len, stream)
    ELSE IF read_exactly(Len(stream), trailing_pad(offset)).res # "Ok"
    THEN MsgRead("Disconnected", Message_default, <<>>)
    ELSE read_body(msg, body_len, After(stream, trailing_pad(offset)))

\* d is what demarshal made of the header-field array
read_header_fields(msg, body_len, d, stream) ==
    IF d.res # "Ok" THEN MsgRead(d.res, Message_default, stream)
    ELSE read_padding([msg EXCEPT !.headers = d.val.objects], body_len,
                      d.offset, stream)

\* the array length and the array: stream starts at the array length
read_header_array(msg, body_len, stream) ==
    IF read_exactly(Len(stream), 4).res # "Ok"
    THEN MsgRead("Disconnected", Message_default, <<>>)
    ELSE IF take_read_to_end(Len(stream) - 4, le_value(SubSeq(stream, 1, 4)))
            # le_value(SubSeq(stream, 1, 4))
    THEN MsgRead("Disconnected", Message_default, <<>>)
    ELSE read_header_fields(msg, body_len,
            demarshal(SubSeq(stream, 1, 4 + le_value(SubSeq(stream, 1, 4))),
                      12, <<"a", "(", "y", "v", ")">>),
            After(stream, 4 + le_value(SubSeq(stream, 1, 4))))

\* v: the objects of the fixed header (yyyyuu)
read_fixed_header(v, stream) ==
    read_header_array([big_endian |-> v[1].n = 66, message_type |-> v[2].n,
                       flags |-> v[3].n, version |-> v[4].n,
                       serial |-> v[6].n, headers |-> <<>>, body |-> <<>>],
                      v[5].n, stream)

sock_read_msg_bytes(stream) ==
    IF read_exactly(Len(stream), 12).res # "Ok"
    THEN MsgRead("Disconnected", Message_default, <<>>)
    ELSE read_fixed_header(
            demarshal(SubSeq(stream, 1, 12), 0,
                      <<"(", "y", "y", "y", "y", "u", "u", ")">>).val.objects,
            After(stream, 12))

----------------------------------------------------------------------------
(* SpecMessage: a caller builds a Message with a factory, add_arg and the  *)
(* add_*_header methods, asks for its body, sends it; a peer writes        *)
(* messages of its own to the same stream; read_msg parses the stream.     *)
(* The caller builds its message when the stream holds nothing unread and *)
(* adds the arguments before it asks for the body; a peer writes its       *)
(* messages back to back before the caller has sent anything.              *)

\* arguments handed to add_arg on one message
MaxArgs == 2
\* messages a peer writes to the stream
MaxPeer == 2

\* the number of a small u32
u32_value(s) == s[1] * U16Mod + s[2]

\* the strings of the model: "d", "/p", "i", "m", "e", "n"
Factories ==
    { Message_create_method_call(<<100>>, <<47, 112>>, <<105>>, <<109>>),
      Message_create_method_return(7),
      Message_create_error(<<101>>, 7),
      Message_create_signal(<<47, 112>>, <<105>>, <<109>>) }

\* what add_arg is handed: 1 as in test_msg, a string, a u64, a Value::Array
\* of one u32, an empty Vec
ArgValues ==
    { Basic("Int32", 1), Str("String", <<115>>), Basic("Uint64", 5),
      Array(U32Items(1), <<"a", "u">>), Vec(<<>>) }

\* the add_*_header calls a caller makes on a message a factory returned
ExtraHeaders == {"member", "reply_serial"}

add_extra_header(m, h) ==
    IF h = "member" THEN Message_add_member_header(m, <<110>>)
    ELSE Message_add_reply_header(m, 9)

\* the messages of a peer, built as records of the pub fields
PeerSignal ==
    [Message_create_signal(<<47, 112>>, <<105>>, <<109>>) EXCEPT !.serial = 5]

PeerMessages ==
    { \* a body and no Signature header
      [PeerSignal EXCEPT !.body = <<1, 0, 0, 0>>],
      \* the Member header twice
      Message_add_member_header(PeerSignal, <<110>>),
      \* Signature "u" and a body of two bytes
      [Message_add_header(PeerSignal, HEADER_FIELD_SIGNATURE,
                          Variant(SignatureValue(<<"u">>), <<"g">>))
         EXCEPT !.body = <<1, 0>>],
      \* Signature "s" and a string cut short
      [Message_add_header(PeerSignal, HEADER_FIELD_SIGNATURE,
                          Variant(SignatureValue(<<"s">>), <<"g">>))
         EXCEPT !.body = <<5, 0, 0, 0, 97>>],
      \* a String where the Signature should be
      [Message_add_header(PeerSignal, HEADER_FIELD_SIGNATURE,
                          Variant(Str("String", <<117>>), <<"s">>))
         EXCEPT !.body = <<1, 0, 0, 0>>] }

\* what a peer writes: its messages whole, or the first 20 bytes of one
\* before the stream ends
PeerStreams ==
    { [bytes |-> sock_send_bytes(m), eof |-> FALSE] : m \in PeerMessages }
    \cup { [bytes |-> SubSeq(sock_send_bytes(PeerSignal), 1, 20),
            eof |-> TRUE] }

InHand(origin, msg, args, extra, got) ==
    [origin |-> origin, msg |-> msg, args |-> args, extra |-> extra,
     got |-> got]

\* an entry of mwire.sent: the message written, own or a peer's, and the
\* number of its bytes
Written_(msg, own, len) == [msg |-> msg, own |-> own, len |-> len]

InitMessage ==
    /\ serial \in {U32(1), U32(66051)}
    /\ queue = <<>>
    /\ phase = "message"
    /\ pc = "idle"
    /\ csSerial = U32(0)
    /\ local = <<>>
    /\ wire = <<>>
    /\ assigned = <<>>
    /\ nrecv = 0
    /\ sockEof = FALSE
    /\ delivered = <<>>
    /\ lastRead = NoRead
    /\ authLog = <<>>
    /\ attempts = <<>>
    /\ ret = NoRet
    /\ NoStream /\ NoDispatch /\ NoCodec /\ NoAddress
    /\ mmsg = [origin |-> "none"]
    /\ mwire = [bytes |-> <<>>, sent |-> <<>>, eof |-> FALSE]
    /\ mres = [op |-> "none"]

mcvars == <<queue, phase, pc, csSerial, local, wire, assigned, sockEof,
            delivered, lastRead, authLog, attempts, ret>>

\* one of the four factories
Create ==
    /\ phase = "message" /\ mmsg.origin = "none"
    /\ mwire.bytes = <<>> /\ mwire.sent = <<>>
    /\ \E m \in Factories : mmsg' = InHand("built", m, <<>>, FALSE, FALSE)
    /\ mres' = [op |-> "create"]
    /\ UNCHANGED <<serial, nrecv, mcvars, rvars, dvars, kvars, avars, mwire>>

\* msg.add_arg(&v)
AddArg ==
    /\ phase = "message" /\ mmsg.origin = "built"
    /\ Len(mmsg.args) < MaxArgs /\ ~mmsg.got
    /\ \E v \in ArgValues :
         LET r == Message_add_arg(mmsg.msg, v) IN
         /\ mmsg' = IF r.res = "Ok"
                    THEN [mmsg EXCEPT !.msg = r.msg, !.args = Append(@, v)]
                    ELSE [origin |-> "panicked"]
         /\ mres' = [op |-> "add_arg", res |-> r.res]
    /\ UNCHANGED <<serial, nrecv, mcvars, rvars, dvars, kvars, avars, mwire>>

\* one of the pub add_*_header methods on the message a factory returned
AddHeader ==
    /\ phase = "message" /\ mmsg.origin = "built"
    /\ ~mmsg.extra /\ mmsg.args = <<>> /\ ~mmsg.got
    /\ \E h \in ExtraHeaders :
         mmsg' = [mmsg EXCEPT !.msg = add_extra_header(@, h), !.extra = TRUE]
    /\ mres' = [op |-> "add_header"]
    /\ UNCHANGED <<serial, nrecv, mcvars, rvars, dvars, kvars, avars, mwire>>

\* msg.get_body(): demarshal takes what it reads off self.body
GetBody ==
    /\ phase = "message" /\ mmsg.origin \in {"built", "read"}
    /\ mres.op = "get_body" => ~mres.of.got
    /\ LET b == Message_get_body_values(mmsg.msg) IN
       /\ mres' = [op |-> "get_body", res |-> b.res, some |-> b.some,
                   objects |-> b.objects, of |-> mmsg]
       /\ mmsg' = IF b.res = "panic" THEN [origin |-> "panicked"]
                  ELSE [mmsg EXCEPT !.msg.body = b.left, !.got = TRUE]
    /\ UNCHANGED <<serial, nrecv, mcvars, rvars, dvars, kvars, avars, mwire>>

\* conn.send(msg): next_serial, then sock_send
SendMsg ==
    /\ phase = "message" /\ mmsg.origin = "built"
    /\ ~mwire.eof
    /\ LET n == next_serial(serial)
           mbuf == [mmsg.msg EXCEPT !.serial = u32_value(n.current)] IN
       /\ serial' = n.serial
       /\ mwire' = [mwire EXCEPT
                       !.bytes = @ \o sock_send_bytes(mbuf),
                       !.sent = Append(@, Written_(mbuf, TRUE,
                                                   Len(sock_send_bytes(mbuf))))]
       /\ mres' = [op |-> "send", res |-> "Ok", serial |-> n.current]
    /\ mmsg' = [origin |-> "none"]
    /\ UNCHANGED <<nrecv, mcvars, rvars, dvars, kvars, avars>>

\* a peer writes to the stream
PeerWrites ==
    /\ phase = "message" /\ mmsg.origin = "none"
    /\ mres.op = "none" /\ ~mwire.eof
    /\ Len(mwire.sent) < MaxPeer
    /\ \E p \in PeerStreams :
         mwire' = [bytes |-> mwire.bytes \o p.bytes,
                   sent |-> Append(mwire.sent,
                                   Written_(Message_default, FALSE,
                                            Len(p.bytes))),
                   eof |-> p.eof]
    /\ UNCHANGED <<serial, nrecv, mcvars, rvars, dvars, kvars, avars, mmsg, mres>>

\* conn.read_msg() with an empty queue, once there are bytes to read
ReadMsgWire ==
    /\ phase = "message" /\ mmsg.origin \in {"none", "read"}
    /\ mwire.bytes # <<>>
    /\ LET r == sock_read_msg_bytes(mwire.bytes) IN
       /\ mmsg' = CASE r.res = "Ok" ->
                         InHand("read", r.msg, <<>>, FALSE, FALSE)
                    [] r.res = "panic" -> [origin |-> "panicked"]
                    [] OTHER -> [origin |-> "none"]
       /\ mwire' = [mwire EXCEPT
                       !.bytes = r.rest,
                       !.sent = IF r.res = "Ok" /\ @ # <<>>
                                THEN Tail(@) ELSE <<>>]
       /\ mres' = [op |-> "read_msg", res |-> r.res,
                   consumed |-> Len(mwire.bytes) - Len(r.rest)]
       /\ nrecv' = IF r.res = "Ok" THEN nrecv + 1 ELSE nrecv
    /\ UNCHANGED <<serial, mcvars, rvars, dvars, kvars, avars>>

NextMessage ==
    \/ Create \/ AddArg \/ AddHeader \/ GetBody \/ SendMsg \/ PeerWrites
    \/ ReadMsgWire

SpecMessage == InitMessage /\ [][NextMessage]_vars

\* the headers of code name in a message
HeadersOf(m, name) ==
    {i \in 1..Len(m.headers) : m.headers[i].objects[1].n = name}

\* the full type signature of an argument: of a Vec or Value::Array the
\* array type, of the other Values their type
FullSignature(v) ==
    CASE v.kind = "Vec" ->
            <<"a">> \o (IF v.objects = <<>> THEN <<>>
                        ELSE get_type(v.objects[1]))
      [] v.kind \in {"Array", "Dictionary", "Struct"} -> v.sig
      [] OTHER -> get_type(v)

RECURSIVE SignatureOf(_)
SignatureOf(args) ==
    IF args = <<>> THEN <<>>
    ELSE FullSignature(Head(args)) \o SignatureOf(Tail(args))

\* the Value an argument is
AsValue(v) == IF v.kind = "Vec" THEN Array(v.objects, FullSignature(v)) ELSE v

\* C24: after a factory and add_arg(v1) ... add_arg(vn) the message has
\* exactly one Signature header, its value is the concatenation of the full
\* type signatures of v1 ... vn in call order, and get_body returns the list
\* [v1, ..., vn].
C24_ArgsInSignatureAndBody ==
    /\ (phase = "message" /\ mmsg.origin = "built" /\ ~mmsg.extra
          /\ ~mmsg.got /\ mmsg.args # <<>>)
       => /\ Cardinality(HeadersOf(mmsg.msg, HEADER_FIELD_SIGNATURE)) = 1
          /\ Message_get_signature(mmsg.msg) = <<SignatureOf(mmsg.args)>>
    /\ (phase = "message" /\ mres.op = "get_body"
          /\ mres.of.origin = "built" /\ ~mres.of.extra /\ ~mres.of.got
          /\ mres.of.args # <<>>)
       => /\ mres.res = "Ok" /\ mres.some
          /\ mres.objects =
                [i \in 1..Len(mres.of.args) |-> AsValue(mres.of.args[i])]

\* C25 as the specification states it: get_body returns None when the body
\* is empty and also when the message has no Signature header, and a
\* DemarshalError only when the Signature header is there.
C25_NoneWithoutSignature ==
    (phase = "message" /\ mres.op = "get_body")
    => /\ (\/ mres.of.msg.body = <<>>
           \/ HeadersOf(mres.of.msg, HEADER_FIELD_SIGNATURE) = {})
          => mres.res = "Ok" /\ ~mres.some
       /\ mres.res \notin {"Ok", "panic"}
          => HeadersOf(mres.of.msg, HEADER_FIELD_SIGNATURE) # {}

\* C25, amended: get_body returns None exactly when the body is empty; with
\* a body and no Signature header it returns Err(CorruptedMessage); any other
\* DemarshalError comes only with a Signature header in the message.
C25_NoneOnlyForEmptyBody ==
    (phase = "message" /\ mres.op = "get_body")
    => /\ mres.of.msg.body = <<>> => mres.res = "Ok" /\ ~mres.some
       /\ (mres.res = "Ok" /\ ~mres.some) => mres.of.msg.body = <<>>
       /\ (/\ mres.of.msg.body # <<>>
           /\ HeadersOf(mres.of.msg, HEADER_FIELD_SIGNATURE) = {})
          => mres.res = "CorruptedMessage"
       /\ mres.res \notin {"Ok", "panic", "CorruptedMessage"}
          => HeadersOf(mres.of.msg, HEADER_FIELD_SIGNATURE) # {}

\* get_body of a message read from the stream that has a body and no
\* Signature header
C25_Witness ==
    /\ phase = "message" /\ mres.op = "get_body"
    /\ mres.of.origin = "read"
    /\ mres.of.msg.body # <<>>
    /\ HeadersOf(mres.of.msg, HEADER_FIELD_SIGNATURE) = {}
    /\ mres.res = "CorruptedMessage"

\* get_body of a message whose body is too short for its Signature
C25_WitnessMalformed ==
    /\ phase = "message" /\ mres.op = "get_body"
    /\ HeadersOf(mres.of.msg, HEADER_FIELD_SIGNATURE) # {}
    /\ mres.res = "MessageTooShort"

\* C26: in every Message the caller comes to hold through the factories,
\* add_arg, the add_*_header methods and read_msg, no header code appears
\* twice.
C26_HeaderCodesUnique ==
    (phase = "message" /\ mmsg.origin \in {"built", "read"})
    => \A i, j \in 1..Len(mmsg.msg.headers) :
          i # j => mmsg.msg.headers[i].objects[1].n
                   # mmsg.msg.headers[j].objects[1].n

\* read_msg returns and the message first written to the stream is the
\* caller's own
C29_Turn ==
    (phase = "message" /\ mres'.op = "read_msg" /\ mwire' # mwire
       /\ mwire.sent # <<>> /\ mwire.sent[1].own)
    => /\ mres'.res = "Ok"
       /\ mmsg'.origin = "read"
       /\ mmsg'.msg.message_type = mwire.sent[1].msg.message_type
       /\ mmsg'.msg.flags = mwire.sent[1].msg.flags
       /\ mmsg'.msg.version = mwire.sent[1].msg.version
       /\ mmsg'.msg.serial = mwire.sent[1].msg.serial
       /\ mmsg'.msg.headers = mwire.sent[1].msg.headers
       /\ mmsg'.msg.body = mwire.sent[1].msg.body
       /\ mres'.consumed = mwire.sent[1].len
       /\ mwire'.bytes = After(mwire.bytes, mwire.sent[1].len)

\* C29: a message built by the factories and add_arg and written by send is
\* parsed back by read_msg, from exactly the bytes send wrote, into a message
\* of the same type, flags, version, serial, header fields (codes and values
\* in order) and body bytes.
C29_SendReadRoundTrip == [][C29_Turn]_vars

\* a method call of two arguments, sent with serial 66051 and read back
C29_Witness ==
    /\ phase = "message" /\ mres.op = "read_msg" /\ mres.res = "Ok"
    /\ mmsg.origin = "read"
    /\ mmsg.msg.message_type = MESSAGE_TYPE_METHOD_CALL
    /\ mmsg.msg.serial = 66051
    /\ Len(mmsg.msg.headers) = 5
    /\ Message_get_signature(mmsg.msg) = << <<"s", "t">> >>
    /\ Len(mmsg.msg.body) = 16

\* the bytes of the message that starts the stream, by its two lengths
WireLength(bytes) ==
    16 + le_value(SubSeq(bytes, 13, 16))
       + PadTo8(16 + le_value(SubSeq(bytes, 13, 16)))
       + le_value(SubSeq(bytes, 5, 8))

\* read_msg returns a message read from the stream
C30_Turn ==
    (phase = "message" /\ mres'.op = "read_msg" /\ mwire' # mwire
       /\ mres'.res = "Ok")
    => /\ mres'.consumed = WireLength(mwire.bytes)
       /\ mwire'.bytes = After(mwire.bytes, WireLength(mwire.bytes))
       /\ mwire.sent # <<>> => mres'.consumed = mwire.sent[1].len

\* C30: a successful read_msg from the socket consumes exactly
\* 16 + L + pad + B bytes, L being the length of the header array,
\* pad = (8 - ((16 + L) mod 8)) mod 8 and B the body length of the fixed
\* header, so that after the messages written back to back are read one by
\* one each read_msg starts where the next message starts.
C30_ConsumesWholeMessage == [][C30_Turn]_vars

\* the length of the header array of a message as Message::dbus_encode
\* writes it
HeaderArrayLength(m) ==
    Len(dbus_encode(Vec(m.headers), [i \in 1..12 |-> 0])) - 16

\* the second of two messages written back to back is read; it has padding
\* after its header fields and a body
C30_Witness ==
    /\ phase = "message" /\ mres.op = "read_msg" /\ mres.res = "Ok"
    /\ nrecv = 2
    /\ mwire.bytes = <<>>
    /\ mmsg.msg.body # <<>>
    /\ PadTo8(16 + HeaderArrayLength(mmsg.msg)) # 0
    /\ mres.consumed = 16 + HeaderArrayLength(mmsg.msg)
                          + PadTo8(16 + HeaderArrayLength(mmsg.msg))
                          + Len(mmsg.msg.body)

----------------------------------------------------------------------------
(* address.rs.  A string is the sequence of its bytes.                     *)

\* the bytes of '%', ',', '=', ':' and of the keys and the transport
Percent == 37
Comma == 44
Equals == 61
Colon == 58

KeyPath == <<112, 97, 116, 104>>
KeyAbstract == <<97, 98, 115, 116, 114, 97, 99, 116>>
KeyGuid == <<103, 117, 105, 100>>
TransportUnix == <<117, 110, 105, 120>>
TransportTcp == <<116, 99, 112>>
KeyHost == <<104, 111, 115, 116>>
KeyPort == <<112, 111, 114, 116>>

\* the value of a hex digit, -1 for white space that from_hex skips, -2 for
\* any other byte
HexDigit(b) ==
    CASE b >= 48 /\ b <= 57  -> b - 48
      [] b >= 97 /\ b <= 102 -> b - 97 + 10
      [] b >= 65 /\ b <= 70  -> b - 65 + 10
      [] b \in {32, 13, 10, 9} -> -1
      [] OTHER -> -2

\* x.from_hex() of a string of two bytes (rustc_serialize): the bytes it
\* holds, or the error for a byte that is no digit or for a digit left over
from_hex(c1, c2) ==
    CASE HexDigit(c1) = -2 \/ HexDigit(c2) = -2 ->
            [res |-> "InvalidHexCharacter", bytes |-> <<>>]
      [] HexDigit(c1) >= 0 /\ HexDigit(c2) >= 0 ->
            [res |-> "Ok", bytes |-> <<16 * HexDigit(c1) + HexDigit(c2)>>]
      [] HexDigit(c1) = -1 /\ HexDigit(c2) = -1 ->
            [res |-> "Ok", bytes |-> <<>>]
      [] OTHER -> [res |-> "InvalidHexLength", bytes |-> <<>>]

Unescaped(res, out) == [res |-> res, out |-> out]

\* one escape of dbus_unescape: the two bytes after '%'
escape_byte(c1, c2) ==
    IF ~IsUtf8(<<c1, c2>>) THEN Unescaped("EscapeNotUtf8", <<>>)
    ELSE IF from_hex(c1, c2).res # "Ok"
    THEN Unescaped("HexConversionError", <<>>)
    ELSE IF from_hex(c1, c2).bytes = <<>> THEN Unescaped("panic", <<>>)
    ELSE Unescaped("Ok", from_hex(c1, c2).bytes)

RECURSIVE unescape_from(_, _)

\* the loop of dbus_unescape after an escape has given e
unescape_escaped(e, buf, out) ==
    IF e.res # "Ok" THEN e ELSE unescape_from(buf, out \o e.out)

\* while let Some(c) = i.next()
unescape_from(buf, out) ==
    IF buf = <<>> THEN Unescaped("Ok", out)
    ELSE IF buf[1] # Percent THEN unescape_from(Tail(buf), Append(out, buf[1]))
    ELSE IF Len(buf) < 3 THEN Unescaped("ShortEscapeSequence", <<>>)
    ELSE unescape_escaped(escape_byte(buf[2], buf[3]),
                          SubSeq(buf, 4, Len(buf)), out)

dbus_unescape(buf) == unescape_from(buf, <<>>)

\* String::from_utf8(vec).map_err(From::from) on what dbus_unescape gave
unescaped_str(u) ==
    IF u.res # "Ok" THEN u
    ELSE IF ~IsUtf8(u.out) THEN Unescaped("EscapeNotUtf8", <<>>)
    ELSE u

dbus_unescape_str(s) == unescaped_str(dbus_unescape(s))

\* s.split(c): the pieces between the separators, empty ones included
RECURSIVE Split(_, _, _)
Split(s, c, piece) ==
    IF s = <<>> THEN <<piece>>
    ELSE IF s[1] = c THEN <<piece>> \o Split(Tail(s), c, <<>>)
    ELSE Split(Tail(s), c, Append(piece, s[1]))

\* what an address parser returns: res is "Ok" or the Error, detail the
\* String of the error, path the path of the UnixAddress
Parsed(res, detail, path) == [res |-> res, detail |-> detail, path |-> path]

\* AddrKeyVals::next on an item that is not empty: keyval its pieces
\* around '='
key_val(item, keyval) ==
    IF Len(keyval) # 2 THEN [res |-> "MalformedKeyValue", detail |-> item]
    ELSE IF dbus_unescape_str(keyval[1]).res # "Ok"
    THEN [res |-> dbus_unescape_str(keyval[1]).res, detail |-> <<>>]
    ELSE IF dbus_unescape_str(keyval[2]).res # "Ok"
    THEN [res |-> dbus_unescape_str(keyval[2]).res, detail |-> <<>>]
    ELSE [res |-> "Ok", key |-> dbus_unescape_str(keyval[1]).out,
          val |-> dbus_unescape_str(keyval[2]).out]

RECURSIVE unix_options(_, _, _)

\* the body of the loop of UnixAddress::from_str where a later path or
\* abstract replaces the earlier one
unix_option_last_wins(kv, rest, path, abs) ==
    IF kv.res # "Ok" THEN Parsed(kv.res, kv.detail, <<>>)
    ELSE IF kv.key \in {KeyPath, KeyAbstract}
    THEN unix_options(rest, <<kv.val>>, kv.key = KeyAbstract)
    ELSE IF kv.key = KeyGuid THEN unix_options(rest, path, abs)
    ELSE Parsed("UnknownOption", kv.key, <<>>)

\* the body of the loop of UnixAddress::from_str: path is <<>> for None
unix_option(kv, rest, path, abs) ==
    IF kv.res # "Ok" THEN Parsed(kv.res, kv.detail, <<>>)
    ELSE IF kv.key \in {KeyPath, KeyAbstract}
    THEN (IF path = <<>>
          THEN unix_options(rest, <<kv.val>>, abs \/ kv.key = KeyAbstract)
          ELSE Parsed("ConflictingOptions", <<>>, <<>>))
    ELSE IF kv.key = KeyGuid THEN unix_options(rest, path, abs)
    ELSE Parsed("UnknownOption", kv.key, <<>>)

\* for kv in keyvals, and what follows the loop
unix_options(items, path, abs) ==
    IF items = <<>>
    THEN (IF path = <<>> THEN Parsed("MissingOption", <<>>, <<>>)
          ELSE Parsed("Ok", <<>>, IF abs THEN <<0>> \o path[1] ELSE path[1]))
    ELSE IF Head(items) = <<>> THEN unix_options(Tail(items), path, abs)
    ELSE unix_option(key_val(Head(items), Split(Head(items), Equals, <<>>)),
                     Tail(items), path, abs)

UnixAddress_from_str(opts) == unix_options(Split(opts, Comma, <<>>), <<>>, FALSE)

RECURSIVE tcp_options(_, _, _)

\* the body of the loop of TcpAddress::from_str: host and port are <<>> for
\* None
tcp_option(kv, rest, host, port) ==
    IF kv.res # "Ok" THEN Parsed(kv.res, kv.detail, <<>>)
    ELSE IF kv.key = KeyHost
    THEN (IF host = <<>> THEN tcp_options(rest, <<kv.val>>, port)
          ELSE Parsed("ConflictingOptions", <<>>, <<>>))
    ELSE IF kv.key = KeyPort
    THEN (IF port = <<>> THEN tcp_options(rest, host, <<kv.val>>)
          ELSE Parsed("ConflictingOptions", <<>>, <<>>))
    ELSE IF kv.key = KeyGuid THEN tcp_options(rest, host, port)
    ELSE Parsed("UnknownOption", kv.key, <<>>)

\* for kv in AddrKeyVals::new(opts), and what follows the loop; the
\* TcpAddress is kept as host ':' port
tcp_options(items, host, port) ==
    IF items = <<>>
    THEN (IF host = <<>> \/ port = <<>>
          THEN Parsed("MissingOption", <<>>, <<>>)
          ELSE Parsed("Ok", <<>>, (host[1] \o <<Colon>>) \o port[1]))
    ELSE IF Head(items) = <<>> THEN tcp_options(Tail(items), host, port)
    ELSE tcp_option(key_val(Head(items), Split(Head(items), Equals, <<>>)),
                    Tail(items), host, port)

TcpAddress_from_str(opts) == tcp_options(Split(opts, Comma, <<>>), <<>>, <<>>)

\* ServerAddress::from_str, sp being the pieces of s around ':'
server_address(s, sp) ==
    IF Len(sp) # 2 THEN Parsed("BadTransportSeparator", s, <<>>)
    ELSE IF sp[1] = TransportUnix THEN UnixAddress_from_str(sp[2])
    ELSE IF sp[1] = TransportTcp THEN TcpAddress_from_str(sp[2])
    ELSE Parsed("UnknownTransport", sp[1], <<>>)

ServerAddress_from_str(s) == server_address(s, Split(s, Colon, <<>>))

----------------------------------------------------------------------------
(* SpecAddress: a byte string is handed to dbus_unescape, or an address to *)
(* ServerAddress::from_str.                                                *)

\* bytes of the strings handed to dbus_unescape
MaxEscLen == 3
\* items of the option list of an address
MaxOpts == 2

\* '%', the digits '6' and '1', 'g', a blank, and the first byte of a
\* character of two bytes
EscAlphabet == {Percent, 54, 49, 103, 32, 195}

RECURSIVE StringsOver(_, _)
StringsOver(alphabet, n) ==
    IF n = 0 THEN {<<>>}
    ELSE StringsOver(alphabet, n - 1)
         \cup {Append(s, c) : s \in StringsOver(alphabet, n - 1),
                              c \in alphabet}

UnescapeInputs == StringsOver(EscAlphabet, MaxEscLen)

\* path=/a  abstract=b  guid=g  foo=c  p%61th=d  (nothing)  junk  k=%g1
OptionItems ==
    { KeyPath \o <<Equals, 47, 97>>,
      KeyAbstract \o <<Equals, 98>>,
      KeyGuid \o <<Equals, 103>>,
      <<102, 111, 111, Equals, 99>>,
      <<112, Percent, 54, 49, 116, 104, Equals, 100>>,
      <<>>,
      <<106, 117, 110, 107>>,
      <<107, Equals, Percent, 103, 49>> }

\* the items with ',' between them
RECURSIVE Join(_)
Join(items) ==
    IF items = <<>> THEN <<>>
    ELSE IF Len(items) = 1 THEN items[1]
    ELSE (items[1] \o <<Comma>>) \o Join(Tail(items))

OptionLists ==
    UNION { [1..n -> OptionItems] : n \in 0..MaxOpts }

\* unix:<options>, and: unix  unix:path=/a:b  foo:path=/a
\* tcp:host=h,port=p  tcp:host=h
Addresses ==
    { (TransportUnix \o <<Colon>>) \o Join(l) : l \in OptionLists }
    \cup { TransportUnix,
           ((TransportUnix \o <<Colon>>) \o KeyPath)
              \o <<Equals, 47, 97, Colon, 98>>,
           (<<102, 111, 111, Colon>> \o KeyPath) \o <<Equals, 47, 97>>,
           (((TransportTcp \o <<Colon>>) \o KeyHost) \o <<Equals, 104, Comma>>)
              \o (KeyPort \o <<Equals, 112>>),
           ((TransportTcp \o <<Colon>>) \o KeyHost) \o <<Equals, 104>> }

InitAddress ==
    /\ serial = U32(2)
    /\ queue = <<>>
    /\ phase = "address"
    /\ pc = "idle"
    /\ csSerial = U32(0)
    /\ local = <<>>
    /\ wire = <<>>
    /\ assigned = <<>>
    /\ nrecv = 0
    /\ sockEof = FALSE
    /\ delivered = <<>>
    /\ lastRead = NoRead
    /\ authLog = <<>>
    /\ attempts = <<>>
    /\ ret = NoRet
    /\ NoStream /\ NoDispatch /\ NoCodec /\ NoMessages
    /\ \/ \E s \in UnescapeInputs : ainp = [op |-> "unescape", s |-> s]
       \/ \E s \in Addresses : ainp = [op |-> "parse", s |-> s]
    /\ aret = [res |-> "none"]

\* dbus_unescape(buf)
Unescape ==
    /\ phase = "address" /\ ainp.op = "unescape" /\ aret.res = "none"
    /\ aret' = dbus_unescape(ainp.s)
    /\ UNCHANGED <<cvars, rvars, dvars, kvars, mvars, ainp>>

\* ServerAddress::from_str(s)
Parse ==
    /\ phase = "address" /\ ainp.op = "parse" /\ aret.res = "none"
    /\ aret' = ServerAddress_from_str(ainp.s)
    /\ UNCHANGED <<cvars, rvars, dvars, kvars, mvars, ainp>>

NextAddress == Unescape \/ Parse

SpecAddress == InitAddress /\ [][NextAddress]_vars

\* the items of the option list of an address that has one ':'
OptionsOf(s) ==
    SelectSeq(Split(Split(s, Colon, <<>>)[2], Comma, <<>>),
              LAMBDA it : it # <<>>)

\* AddrKeyVals::next on the i-th of them
OptionAt(s, i) == key_val(OptionsOf(s)[i], Split(OptionsOf(s)[i], Equals, <<>>))

\* every item is key=value with escapes that unescape
WellFormedOptions(s) ==
    \A i \in 1..Len(OptionsOf(s)) : OptionAt(s, i).res = "Ok"

PathOptions(s) ==
    {i \in 1..Len(OptionsOf(s)) : OptionAt(s, i).key \in {KeyPath, KeyAbstract}}

UnknownOptions(s) ==
    {i \in 1..Len(OptionsOf(s)) :
        OptionAt(s, i).key \notin {KeyPath, KeyAbstract, KeyGuid}}

\* the verdict r on a unix address s whose options are well formed
C27_Verdict(s, r) ==
    /\ r.res \in {"Ok", "MissingOption", "ConflictingOptions", "UnknownOption"}
    /\ r.res = "Ok"
       <=> (Cardinality(PathOptions(s)) = 1 /\ UnknownOptions(s) = {})
    /\ r.res = "Ok"
       => \A i \in PathOptions(s) :
             r.path = (IF OptionAt(s, i).key = KeyAbstract
                       THEN <<0>> \o OptionAt(s, i).val
                       ELSE OptionAt(s, i).val)
    /\ r.res = "MissingOption" => PathOptions(s) = {}
    /\ r.res = "ConflictingOptions" => Cardinality(PathOptions(s)) >= 2
    /\ r.res = "UnknownOption"
       => \E i \in UnknownOptions(s) : r.detail = OptionAt(s, i).key
    /\ (UnknownOptions(s) = {} /\ PathOptions(s) = {})
       => r.res = "MissingOption"
    /\ (UnknownOptions(s) = {} /\ Cardinality(PathOptions(s)) >= 2)
       => r.res = "ConflictingOptions"
    /\ (UnknownOptions(s) # {} /\ Cardinality(PathOptions(s)) <= 1)
       => r.res = "UnknownOption"

\* C27: a string without exactly one ':' gives BadTransportSeparator; a unix
\* address whose options are key=value items is parsed exactly when one of
\* them is path or abstract and the others are guid, abstract giving a NUL
\* byte followed by the value; with no path or abstract it gives
\* MissingOption, with two of them ConflictingOptions, with another key
\* UnknownOption carrying that key (of several defects the first in the
\* list decides).
C27_UnixAddressOptions ==
    (phase = "address" /\ ainp.op = "parse" /\ aret.res # "none")
    => /\ aret.res = "BadTransportSeparator"
          <=> Len(Split(ainp.s, Colon, <<>>)) # 2
       /\ (/\ Len(Split(ainp.s, Colon, <<>>)) = 2
           /\ Split(ainp.s, Colon, <<>>)[1] = TransportUnix
           /\ WellFormedOptions(ainp.s))
          => C27_Verdict(ainp.s, aret)
       /\ (/\ Len(Split(ainp.s, Colon, <<>>)) = 2
           /\ Split(ainp.s, Colon, <<>>)[1] = TransportUnix
           /\ aret.res = "Ok")
          => WellFormedOptions(ainp.s)

\* unix:abstract=b,guid=g is parsed into the path NUL b
C27_Witness ==
    /\ phase = "address" /\ ainp.op = "parse"
    /\ ainp.s = (((TransportUnix \o <<Colon>>) \o KeyAbstract)
                 \o <<Equals, 98, Comma>>) \o (KeyGuid \o <<Equals, 103>>)
    /\ aret.res = "Ok"
    /\ aret.path = <<0, 98>>

\* unix:path=/a,abstract=b gives ConflictingOptions
C27_WitnessConflict ==
    /\ phase = "address" /\ ainp.op = "parse"
    /\ ainp.s = (((TransportUnix \o <<Colon>>) \o KeyPath)
                 \o <<Equals, 47, 97, Comma>>) \o (KeyAbstract \o <<Equals, 98>>)
    /\ aret.res = "ConflictingOptions"

\* what the unescaping of buf is stated to return
RECURSIVE StatedUnescape(_, _)
StatedUnescape(buf, out) ==
    IF buf = <<>> THEN Unescaped("Ok", out)
    ELSE IF buf[1] # Percent
    THEN StatedUnescape(Tail(buf), Append(out, buf[1]))
    ELSE IF Len(buf) < 3 THEN Unescaped("ShortEscapeSequence", <<>>)
    ELSE IF HexDigit(buf[2]) >= 0 /\ HexDigit(buf[3]) >= 0
    THEN StatedUnescape(SubSeq(buf, 4, Len(buf)),
                        Append(out, 16 * HexDigit(buf[2]) + HexDigit(buf[3])))
    ELSE Unescaped("HexConversionError", <<>>)

\* C28: dbus_unescape maps every byte other than '%' to itself and every
\* '%HH' to the byte of hex value HH; '%' followed by fewer than two bytes
\* gives ShortEscapeSequence, by two that are not hex digits
\* HexConversionError; the output is two bytes shorter than the input for
\* every escape.
C28_PercentUnescaping ==
    (phase = "address" /\ ainp.op = "unescape" /\ aret.res # "none")
    => /\ aret = StatedUnescape(ainp.s, <<>>)
       /\ aret.res = "Ok"
          => Len(aret.out) = Len(ainp.s)
                - 2 * Cardinality({i \in 1..Len(ainp.s) : ainp.s[i] = Percent})

----------------------------------------------------------------------------
(* Claims about what the handlers write to the sender, checked under       *)
(* SpecDispatch                                                            *)

\* C38: handling one incoming message writes at most one message to the
\* sender: no turn of a handler adds more than one, and after the whole
\* chain no more than one has been written, whether the sends succeed or
\* not.
C38_AtMostOneSend ==
    phase = "dispatch"
    => /\ Len(sent) <= 1
       /\ \A n \in 1..(Len(dispatchers) + 1) : Len(SentBy(n)) <= 1

\* C39: nothing is written to the sender for an incoming Signal, with or
\* without a handler, whatever the handler returns, NoMatchHandler at the
\* end of the chain included.
C39_NothingSentForSignal ==
    (phase = "dispatch" /\ orig.mtype = MESSAGE_TYPE_SIGNAL) => sent = <<>>

----------------------------------------------------------------------------
(* SpecOffset: a Value is marshalled into a buffer that already holds coff *)
(* bytes, or bytes arrive from elsewhere behind coff bytes already read;   *)
(* what follows the coff bytes is demarshalled with coff for the offset.   *)

\* the most bytes that stand before the value
MaxOffset == 4

Zeros(n) == [i \in 1..n |-> 0]

\* a Vec<u64> and a Vec<u32>, as Vec<T>::dbus_encode takes them
Vecs ==
    UNION { { <<Vec(I64Items(k)), <<"a", "x">> >>,
              <<Vec(U32Items(k)), <<"a", "u">> >> } : k \in 0..MaxItems }

OffsetInputs == CodecInputs \cup Vecs

\* signatures for bytes that arrive: a string, a path, a signature, an
\* integer, a boolean, a variant, arrays followed by a further type, an
\* array inside a struct, doubles
RawSignatures ==
    { <<"s">>, <<"o">>, <<"g">>, <<"u">>, <<"b">>, <<"v">>,
      <<"a", "u", "y">>, <<"a", "y", "u">>, <<"(", "a", "u", "y", ")">>,
      <<"d">>, <<"a", "d">> }

\* the bytes that arrive: a string of declared length 5 cut after one byte,
\* a string without its NUL, the string "a", an empty array and a byte, an
\* array of one u32 and a byte, a signature cut short, a variant holding a
\* u32, eight zero bytes, and short ones
RawBuffers ==
    { <<5, 0, 0, 0, 97>>, <<1, 0, 0, 0, 97>>, <<1, 0, 0, 0, 97, 0>>,
      <<0, 0, 0, 0, 9>>, <<4, 0, 0, 0, 1, 0, 0, 0, 9>>, <<2, 97, 0>>,
      <<1, 117, 0, 0, 42, 0, 0, 0>>, Zeros(8), <<2, 0, 0, 0>>, <<7>>, <<>> }

InitOffset ==
    /\ serial = U32(2)
    /\ queue = <<>>
    /\ phase = "offset"
    /\ pc = "idle"
    /\ csSerial = U32(0)
    /\ local = <<>>
    /\ wire = <<>>
    /\ assigned = <<>>
    /\ nrecv = 0
    /\ sockEof = FALSE
    /\ delivered = <<>>
    /\ lastRead = NoRead
    /\ authLog = <<>>
    /\ attempts = <<>>
    /\ ret = NoRet
    /\ NoStream /\ NoDispatch /\ NoMessages /\ NoAddress
    /\ \/ \E x \in OffsetInputs : cval = x[1] /\ csig = x[2]
       \/ cval = NoValue /\ csig \in RawSignatures
    /\ coff \in 0..MaxOffset
    /\ cbuf = <<>>
    /\ cret = [res |-> "none"]

\* x.dbus_encode(&mut buf), buf holding coff bytes
EncodeAt ==
    /\ phase = "offset" /\ cval # NoValue
    /\ cbuf = <<>> /\ cret.res = "none"
    /\ cbuf' = dbus_encode(cval, Zeros(coff))
    /\ UNCHANGED <<cvars, rvars, dvars, mvars, avars, cval, csig, cret, coff>>

\* bytes arrive behind the coff bytes already read
ArriveAt ==
    /\ phase = "offset" /\ cval = NoValue
    /\ cbuf = <<>> /\ cret.res = "none"
    /\ \E raw \in RawBuffers :
         /\ raw # <<>> \/ coff > 0
         /\ cbuf' = Zeros(coff) \o raw
    /\ UNCHANGED <<cvars, rvars, dvars, mvars, avars, cval, csig, cret, coff>>

\* demarshal(&mut buf, &mut offset, &mut sig): buf is what follows the
\* first coff bytes, offset is coff
DemarshalAt ==
    /\ phase = "offset"
    /\ cbuf # <<>> /\ cret.res = "none"
    /\ cret' = demarshal(After(cbuf, coff), coff, csig)
    /\ UNCHANGED <<cvars, rvars, dvars, mvars, avars, cval, cbuf, csig, coff>>

NextOffset == EncodeAt \/ ArriveAt \/ DemarshalAt

SpecOffset == InitOffset /\ [][NextOffset]_vars

\* the padding that brings offset k to a multiple of align
PadFor(align, k) == (align - (k % align)) % align

----------------------------------------------------------------------------
(* Claims about marshalling and demarshalling at an offset, checked under  *)
(* SpecOffset                                                              *)

\* where the length field of an array marshalled behind k bytes stands, and
\* where its first element stands when the element type is aligned to align
LengthAt(k) == k + PadFor(4, k)

FirstElementAt(k, align) == LengthAt(k) + 4 + PadFor(align, LengthAt(k) + 4)

\* C31: marshalling an array writes the 4-byte length, then pads the buffer
\* to the alignment of the element type even when there is no element, and
\* the length field holds the bytes from the start of the first element to
\* the end of the last, the padding after the length field not counted.
C31_ArrayLengthExcludesPadding ==
    (phase = "offset" /\ cval.kind \in {"Array", "Vec"} /\ cbuf # <<>>)
    => /\ Len(cbuf) >= FirstElementAt(coff, get_alignment(csig[2]))
       /\ le_value(SubSeq(cbuf, LengthAt(coff) + 1, LengthAt(coff) + 4))
          = Len(cbuf) - FirstElementAt(coff, get_alignment(csig[2]))

\* the index of the parenthesis that closes the one opened before index i
RECURSIVE CloseAt(_, _, _)
CloseAt(sig, i, depth) ==
    IF i > Len(sig) THEN Len(sig)
    ELSE IF sig[i] \in {")", "}"}
    THEN (IF depth = 1 THEN i ELSE CloseAt(sig, i + 1, depth - 1))
    ELSE IF sig[i] \in {"(", "{"} THEN CloseAt(sig, i + 1, depth + 1)
    ELSE CloseAt(sig, i + 1, depth)

\* the length of the one complete type a signature starts with
RECURSIVE TypeLen(_)
TypeLen(sig) ==
    IF sig = <<>> THEN 0
    ELSE IF sig[1] = "a" THEN 1 + TypeLen(Tail(sig))
    ELSE IF sig[1] \in {"(", "{"} THEN CloseAt(sig, 2, 1)
    ELSE 1

HoldsEmptyArray(v) ==
    \E i \in 1..Len(v.objects) :
       v.objects[i].kind = "Array" /\ v.objects[i].objects = <<>>

\* C32: when demarshal has decoded an array, of no element as well, the
\* signature is left at what followed the array's type; a struct that
\* holds an empty array followed by further fields decodes.
C32_SignatureCursorAfterArray ==
    (phase = "offset" /\ cret.res # "none")
    => /\ (cret.res = "Ok" /\ csig[1] = "a")
          => cret.sig = SubSeq(csig, TypeLen(csig) + 1, Len(csig))
       /\ (cval.kind = "Struct" /\ HoldsEmptyArray(cval)) => cret.res = "Ok"

\* the alignment table as stated, and with the boolean at the four bytes
\* demarshal_bool and bool::dbus_encode align it to
StatedAlignment(c) ==
    CASE c \in {"y", "b", "g", "v"}      -> 1
      [] c \in {"n", "q"}                -> 2
      [] c \in {"i", "u", "s", "o", "a"} -> 4
      [] OTHER                           -> 8

AlignmentInUse(c) == IF c = "b" THEN 4 ELSE StatedAlignment(c)

\* values whose bytes are the same at every offset their alignment allows:
\* the basic ones, structs, and arrays of elements aligned to 4 or less
IsRigid(sig) ==
    \/ sig[1] \notin {"a", "v"}
    \/ sig \in { <<"a", "u">>, <<"a", "y">>, <<"a", "a", "u">> }

\* the bytes of a value that starts where its alignment is met
EncodedLen(v) == Len(dbus_encode(v, <<>>))

C33_WitnessStruct ==
    /\ phase = "offset" /\ coff = 3
    /\ csig = <<"(", "s", "s", ")">>
    /\ cret.res = "Ok"
    /\ cret.offset = 8 + EncodedLen(cval)

\* the declared length of the string, path or signature that arrives, as
\* far as the bytes behind offset k hold it; -1 when they do not
DeclaredLength(buf, k, count_size) ==
    IF Len(buf) < PadFor(count_size, k) + count_size THEN -1
    ELSE le_value(SubSeq(buf, PadFor(count_size, k) + 1,
                         PadFor(count_size, k) + count_size))

\* C35: demarshal never panics: for every buffer and signature it returns
\* a value or a DemarshalError, and a string, path or signature whose
\* declared length exceeds the bytes that remain gives MessageTooShort.
C35_DemarshalTotal ==
    (phase = "offset" /\ cret.res # "none")
    => /\ cret.res # "panic"
       /\ \A c \in {"s", "o", "g"} :
            LET n == IF c = "g" THEN 1 ELSE 4
                d == DeclaredLength(After(cbuf, coff), coff, n) IN
            (csig = <<c>> /\ cval = NoValue
             /\ d >= 0 /\ d > Len(cbuf) - coff - PadFor(n, coff) - n)
            => cret.res = "MessageTooShort"

\* C36: on every successful demarshal the offset has advanced by the number
\* of bytes taken off the front of the buffer, padding included.
C36_OffsetTracksBuffer ==
    (phase = "offset" /\ cret.res = "Ok")
    => cret.offset - coff = (Len(cbuf) - coff) - Len(cret.buf)

\* a struct of two strings decoded at offset 3: 5 bytes of padding, and 2
\* more between the strings
C36_Witness ==
    /\ phase = "offset" /\ coff = 3
    /\ cval.kind = "Struct" /\ csig = <<"(", "s", "s", ")">>
    /\ cret.res = "Ok"
    /\ cret.buf = <<>>
    /\ cret.offset = 22

\* bytes left behind the value: a string at offset 2 with another byte
\* after it
C36_WitnessRest ==
    /\ phase = "offset" /\ coff = 2 /\ cval = NoValue
    /\ csig = <<"s">>
    /\ cret.res = "Ok"
    /\ cret.buf # <<>>

----------------------------------------------------------------------------
(* Claims about get_body called again, checked under SpecMessage *)

\* C37: get_body does not change the message: the body bytes after a call
\* are the body bytes before it, and a second call on the same message
\* returns what the first returned.
C37_Turn ==
    (phase = "message" /\ mres'.op = "get_body" /\ mres' # mres)
    => /\ mmsg'.origin = mmsg.origin
       /\ mmsg'.msg.body = mmsg.msg.body
       /\ mres.op = "get_body"
          => /\ mres'.res = mres.res
             /\ mres'.some = mres.some
             /\ mres'.objects = mres.objects

C37_GetBodyKeepsMessage == [][C37_Turn]_vars

----------------------------------------------------------------------------
(* Claims about call_sync's local queue and the serial counter, checked    *)
(* under Spec                                                              *)

\* C34: no message read from the stream is lost: when call_sync ends, with
\* the reply or with an error, every message it has read and set aside is
\* in the Connection's queue, from where read_msg returns it.
C34_Turn ==
    (pc = "cs_loop" /\ pc' # "cs_loop")
    => \A i \in 1..Len(local) : \E j \in 1..Len(queue') : queue'[j] = local[i]

C34_NoMessageLost == [][C34_Turn]_vars

\* C40: every call of send advances the serial counter by one, also when
\* the write to the socket fails, and the serial it stamps was stamped on
\* no message before; read_msg and a call_sync that panics on its
\* precondition leave the counter as it is.
C40_Turn ==
    /\ ret'.op = "send"
       => /\ serial' = u32_wrapping_inc(serial)
          /\ assigned' = Append(assigned, serial)
    /\ assigned' # assigned
       => /\ serial' = u32_wrapping_inc(serial)
          /\ \A i \in 1..Len(assigned) : assigned[i] # Last(assigned')
    /\ ret'.op = "read_msg" => serial' = serial
    /\ (ret'.op = "call_sync" /\ ret'.kind = "panic") => serial' = serial

C40_SendAdvancesSerial == [][C40_Turn]_vars

=============================================================================
